---- MODULE Spec2Model ----
(***************************************************************************)
(* Model of the MCP host integration layer.                                *)
(*                                                                         *)
(* Part I  : the JSON-RPC / MCP protocol engine (class MCPProtocol) over   *)
(*           an abstract Transport.                                        *)
(* Part II : the server lifecycle manager (class ServerManager) with the   *)
(*           client facade, protocol engine and stdio transport of each    *)
(*           managed server.                                               *)
(*                                                                         *)
(* Part III: the client facade (class MCPClient) over the engine of Part I. *)
(* Part IV : the tool router (class ToolRouter) with its permission guard, *)
(*           audit log and manifest cache, over a fleet of the manager.    *)
(*                                                                         *)
(* Node's scheduling is modelled at the granularity of one event-loop      *)
(* callback: every action is the synchronous code run by one event         *)
(* (a call from the environment, a timer, a transport event, a write       *)
(* callback, or the continuation of an await).                             *)
(***************************************************************************)
EXTENDS Integers, Sequences, FiniteSets, TLC

\* ------------------------------------------------------------------ bounds
\* Number of request() calls made on the engine in one behaviour.
MaxReq == 2

\* Exit codes a closing child may report.
Codes == {0, 1}

\* ------------------------------------------------------ program constants
INITIALIZE == "initialize"
INITIALIZED == "notifications/initialized"
SHUTDOWN == "shutdown"
TOOLS_LIST == "tools/list"
TOOLS_CALL == "tools/call"
RESOURCES_LIST == "resources/list"
RESOURCES_READ == "resources/read"
PROMPTS_LIST == "prompts/list"
PROMPTS_GET == "prompts/get"
\* Methods the environment requests directly through request().
ReqMethods == {TOOLS_CALL}
\* Method of the server-initiated notifications the model delivers.
LogNotification == "notifications/message"

VARIABLES
  \* ---- MCPProtocol
  nextId,        \* private nextId
  pending,       \* private pending: Map in insertion order, <<[id, method, call]>>
  timers,        \* armed setTimeout handles, one per call of request()
  initialized,   \* private initialized
  \* ---- Transport seen by the engine
  connected,     \* transport.isConnected
  procClosed,    \* the transport has emitted its close event
  sending,       \* calls of request() whose transport.send() promise is unsettled
  failing,       \* calls of request() whose transport.send() threw (catch queued)
  sentMessages,  \* messages handed to the transport, in order
  \* ---- callers
  calls,         \* one record per request() call: its id, method and promise
  initPc,        \* position of the initialize() call
  initCall,      \* the request() call made by initialize()
  shutPc,        \* position of the shutdown() call
  shutCall,      \* the request() call made by shutdown()
  trace          \* the effects of the last callback, in program order

protoVars == <<nextId, pending, timers, initialized, connected, procClosed,
               sending, failing, sentMessages, calls, initPc, initCall,
               shutPc, shutCall, trace>>

VARIABLES
  \* ---- ServerManager
  servers,       \* private servers: Map in insertion order, <<[id (name), obj]>>
  managed,       \* every ManagedServer created so far: config, state, client
  threads,       \* the async calls in flight, each at its current await
  ncalls,        \* the part of the call budget used so far
  mtrace,        \* the effects of the last callback, in program order
  stopped,       \* history: the names whose stop(name) has resolved and
                 \* that have not been registered since
  orphans        \* history: the names of the clients the manager has let
                 \* go of with their child running and close() never called

mgrVars == <<servers, managed, threads, ncalls, mtrace, stopped, orphans>>

VARIABLES
  \* ---- MCPClient over the engine above
  protocolSet,   \* this.protocol is not null
  cachedTools,   \* this.cachedTools is not null
  discPc,        \* position of the disconnect() call
  ops            \* the operations called on the client, with what came of them

cliVars == <<protocolSet, cachedTools, discPc, ops>>

VARIABLES
  \* ---- ToolRouter and its collaborators
  manifest,      \* ManifestManager: manifest.servers in insertion order,
                 \* <<[id (server name), tools]>>
  file,          \* the manifest file on disk
  returned,      \* the last load() or findTool() call made on the manifest
                 \* manager itself, with what it returned
  rules,         \* PermissionGuard.rules, in insertion order
  checked,       \* the last checkToolPermission call made on the guard
                 \* itself, with its result
  capacity,      \* AuditLog.maxEntries
  audit,         \* AuditLog.entries
  recorded,      \* history: the calls made on the audit log itself, each
                 \* with the entry it handed to record()
  queried,       \* the recent() or forServer() call made on the audit log
                 \* itself since the last entry was recorded, with what it
                 \* returned
  invokes,       \* the invoke() calls made on the router, with what came
                 \* of them
  listings       \* the listAllTools() calls made on the router, each at its
                 \* place in the loop, with what came of it

manifestVars == <<manifest, file, returned>>

guardVars == <<rules, checked>>

auditVars == <<capacity, audit, recorded, queried>>

rtrVars == <<manifestVars, guardVars, auditVars, invokes, listings>>

VARIABLES
  \* ---- StdioTransport on its own
  process,       \* this.process: 0 for null, else the number of a child
  isConnected,   \* this._isConnected
  children,      \* every child process spawned so far, in spawn order
  tcalls,        \* the start(), send() and close() calls made on the
                 \* transport, each with what came of it
  stdout,        \* the bytes the child has written to its stdout that no
                 \* 'data' event has handed over yet
  buffer,        \* this.buffer, a string
  emissions,     \* the 'message' and 'error' events handleData has
                 \* emitted, in order
  written        \* history: the characters the child has written

frmVars == <<stdout, buffer, emissions, written>>

trVars == <<process, isConnected, children, tcalls, frmVars>>

vars == <<protoVars, mgrVars, cliVars, rtrVars, trVars>>

\* ------------------------------------------------------------ Map helpers
MapHas(m, id) == \E i \in 1..Len(m) : m[i].id = id

MapGet(m, id) == m[CHOOSE i \in 1..Len(m) : m[i].id = id]

MapDelete(m, id) == SelectSeq(m, LAMBDA e : e.id # id)

MapSet(m, e) ==
  IF MapHas(m, e.id)
  THEN [i \in 1..Len(m) |-> IF m[i].id = e.id THEN e ELSE m[i]]
  ELSE Append(m, e)

\* ------------------------------------------------------- promise outcomes
Outcome(kind, id, method, val, code) ==
  [kind |-> kind, id |-> id, method |-> method, val |-> val, code |-> code]

NoOutcome == Outcome("none", 0, "", 0, 0)

\* resolve()/reject() of the promise of call k: only the first one settles it.
Settle(cs, k, o) ==
  [cs EXCEPT ![k].outcome = IF @.kind = "none" THEN o ELSE @]

Settled(k) == calls[k].outcome.kind # "none"

Effect(ev, n) == [ev |-> ev, n |-> n]

\* ------------------------------------------------------------- messages
Response(id, isError, val) ==
  [hasId |-> TRUE, id |-> id, isError |-> isError, val |-> val, method |-> ""]

Notification(method) ==
  [hasId |-> FALSE, id |-> 0, isError |-> FALSE, val |-> 0, method |-> method]

\* The payload (result, or error data) the server computes for request id.
ServerPayload(id) == 10 * id

\* What a server may write on its stdout: a response to any id, allocated or
\* not, or a notification.
Messages ==
  {Response(id, e, ServerPayload(id)) : id \in 1..(MaxReq + 1), e \in BOOLEAN}
    \cup {Notification(LogNotification)}

\* ===================================================================== *
\* Part I: MCPProtocol                                                   *
\* ===================================================================== *

\* Faulty variant: the counter is not advanced.
PostIncrement_stuck(n) == n

\* const id = this.nextId++ : the value the counter holds afterwards.
PostIncrement(n) == n + 1

\* Transport.send(message) for the request of call k: a connected transport
\* takes the message and settles the send promise later; a transport that is
\* not connected throws, which queues the catch callback of request().  The
\* engine itself never closes its transport: here the transport is connected
\* until the child closes.
TransportSend(k, m) ==
  IF connected
  THEN /\ sending' = sending \cup {k}
       /\ sentMessages' = Append(sentMessages, m)
       /\ UNCHANGED failing
  ELSE /\ failing' = failing \cup {k}
       /\ UNCHANGED <<sending, sentMessages>>

\* The pending entry request() registers for call k.
PendingEntry(id, method, k) == [id |-> id, method |-> method, call |-> k]

\* MCPProtocol.request, up to the return of the promise.
request(method) ==
  LET id == nextId
      k  == Len(calls) + 1
  IN /\ nextId' = PostIncrement(nextId)
     /\ calls' = Append(calls, [id |-> id, method |-> method,
                                outcome |-> NoOutcome])
     /\ timers' = timers \cup {k}
     /\ pending' = MapSet(pending, PendingEntry(id, method, k))
     /\ TransportSend(k, [id |-> id, method |-> method])

\* A request() call made by the environment.
Request(method) ==
  /\ Len(calls) < MaxReq
  /\ request(method)
  /\ trace' = <<Effect("set", nextId), Effect("send", nextId)>>
  /\ UNCHANGED <<initialized, connected, procClosed, initPc, initCall,
                 shutPc, shutCall>>

\* The send promise of call k rejects (at once when send threw, at any later
\* time when the write fails): the catch callback of request().  A send
\* promise that resolves runs no code of the engine.
SendFail(k) ==
  /\ k \in sending \cup failing
  /\ sending' = sending \ {k}
  /\ failing' = failing \ {k}
  /\ pending' = MapDelete(pending, calls[k].id)
  /\ timers' = timers \ {k}
  /\ calls' = Settle(calls, k,
                     Outcome("sendfail", calls[k].id, calls[k].method, 0, 0))
  /\ trace' = <<Effect("delete", calls[k].id), Effect("clearTimeout", k),
                Effect("reject", k)>>
  /\ UNCHANGED <<nextId, initialized, connected, procClosed, sentMessages,
                 initPc, initCall, shutPc, shutCall>>

\* Faulty variant: the timeout error does not carry the request id.
TimeoutError_noId(k) == Outcome("timeout", 0, calls[k].method, 0, 0)

\* The error the timer callback of call k rejects with: it names the method
\* and the id of the request.
TimeoutError(k) == Outcome("timeout", calls[k].id, calls[k].method, 0, 0)

\* Faulty variant: the timer callback leaves the entry in the table.
TimerDelete_forgot(p, id) == p

\* What the timer callback does to the pending table.
TimerDelete(p, id) == MapDelete(p, id)

\* The setTimeout callback of call k.
TimerFire(k) ==
  /\ k \in timers
  /\ timers' = timers \ {k}
  /\ pending' = TimerDelete(pending, calls[k].id)
  /\ calls' = Settle(calls, k, TimeoutError(k))
  /\ trace' = <<Effect("delete", calls[k].id), Effect("reject", k)>>
  /\ UNCHANGED <<nextId, initialized, connected, procClosed, sending, failing,
                 sentMessages, initPc, initCall, shutPc, shutCall>>

\* const pending = this.pending.get(response.id)
LookupHas(p, id) == MapHas(p, id)

\* Faulty variant: responses are matched to the oldest pending request.
LookupGet_first(p, id) == p[1]

LookupGet(p, id) == MapGet(p, id)

\* The outcome handleMessage settles the promise with.
ResponseOutcome(msg) ==
  IF msg.isError
  THEN Outcome("mcperror", msg.id, "", msg.val, 0)
  ELSE Outcome("result", msg.id, "", msg.val, 0)

\* MCPProtocol.handleMessage
handleMessage(msg) ==
  IF msg.hasId
  THEN IF LookupHas(pending, msg.id)
       THEN LET p == LookupGet(pending, msg.id)
            IN /\ pending' = MapDelete(pending, msg.id)
               /\ timers' = timers \ {p.call}
               /\ calls' = Settle(calls, p.call, ResponseOutcome(msg))
               /\ trace' = <<Effect("delete", msg.id),
                             Effect("clearTimeout", p.call),
                             Effect(IF msg.isError THEN "reject" ELSE "resolve",
                                    p.call)>>
       ELSE /\ trace' = <<Effect("drop", msg.id)>>
            /\ UNCHANGED <<pending, timers, calls>>
  ELSE /\ trace' = <<Effect("emit_notification", 0)>>
       /\ UNCHANGED <<pending, timers, calls>>

\* The transport emits a message event.
HandleMessage(msg) ==
  /\ ~procClosed
  /\ handleMessage(msg)
  /\ UNCHANGED <<nextId, initialized, connected, procClosed, sending, failing,
                 sentMessages, initPc, initCall, shutPc, shutCall>>

\* The calls whose entries are in the pending table p.
PendingCalls(p) == {p[i].call : i \in 1..Len(p)}

\* for (const [id, pending] of this.pending) { clearTimeout; reject; delete }
\* with the error o: the promises afterwards.
RejectAll(cs, p, o) ==
  [k \in DOMAIN cs |->
     IF k \in PendingCalls(p)
     THEN [cs[k] EXCEPT !.outcome = IF @.kind = "none" THEN o ELSE @]
     ELSE cs[k]]

RejectAllTrace(p) == [i \in 1..Len(p) |-> Effect("reject", p[i].call)]

\* The pending table after the loop.
ClearedPending(p) == <<>>

ClosedError(code) == Outcome("closed", 0, "", 0, code)

\* Faulty variant: the close event is emitted before the rejections.
CloseTrace_emitFirst(p, code) ==
  <<Effect("emit_close", code)>> \o RejectAllTrace(p)

\* The effects of handleClose, in program order.
CloseTrace(p, code) == RejectAllTrace(p) \o <<Effect("emit_close", code)>>

\* MCPProtocol.handleClose
handleClose(code) ==
  /\ initialized' = FALSE
  /\ calls' = RejectAll(calls, pending, ClosedError(code))
  /\ timers' = timers \ PendingCalls(pending)
  /\ pending' = ClearedPending(pending)
  /\ trace' = CloseTrace(pending, code)

\* The child closes: the transport marks itself disconnected and emits close.
TransportClose(code) ==
  /\ ~procClosed
  /\ procClosed' = TRUE
  /\ connected' = FALSE
  /\ handleClose(code)
  /\ UNCHANGED <<nextId, sending, failing, sentMessages, initPc, initCall,
                 shutPc, shutCall>>

\* ---- MCPProtocol.initialize

\* initialize(): the initialize request is issued.
InitializeCall ==
  /\ initPc = "idle"
  /\ Len(calls) < MaxReq
  /\ request(INITIALIZE)
  /\ initCall' = Len(calls) + 1
  /\ initPc' = "awaitInit"
  /\ trace' = <<Effect("set", nextId), Effect("send", nextId)>>
  /\ UNCHANGED <<initialized, connected, procClosed, shutPc, shutCall>>

\* Faulty variant: a rejected initialize request does not end initialize().
AfterInitializeRequest_ignoreFailure(kind) ==
  IF connected THEN "awaitNotify" ELSE "failed"

\* The step of initialize() after `await this.request(INITIALIZE)`: a
\* rejection leaves initialize(); a result goes on to notify(INITIALIZED),
\* whose transport.send throws on a transport that is not connected.
AfterInitializeRequest(kind) ==
  IF kind = "result"
  THEN IF connected THEN "awaitNotify" ELSE "failed"
  ELSE "failed"

InitializeResume ==
  /\ initPc = "awaitInit"
  /\ Settled(initCall)
  /\ initPc' = AfterInitializeRequest(calls[initCall].outcome.kind)
  /\ sentMessages' = IF initPc' = "awaitNotify"
                     THEN Append(sentMessages, [id |-> 0, method |-> INITIALIZED])
                     ELSE sentMessages
  /\ trace' = IF initPc' = "awaitNotify" THEN <<Effect("send", 0)>> ELSE <<>>
  /\ UNCHANGED <<nextId, pending, timers, initialized, connected, procClosed,
                 sending, failing, calls, initCall, shutPc, shutCall>>

\* The value of this.initialized after `await this.notify(INITIALIZED)`.
InitializedAfterNotify(ok) == IF ok THEN TRUE ELSE initialized

\* The send promise of the notification settles: initialize() marks the
\* engine initialized and returns, or rejects.
NotifyDone(ok) ==
  /\ initPc = "awaitNotify"
  /\ initialized' = InitializedAfterNotify(ok)
  /\ initPc' = IF ok THEN "done" ELSE "failed"
  /\ trace' = <<>>
  /\ UNCHANGED <<nextId, pending, timers, connected, procClosed, sending,
                 failing, sentMessages, calls, initCall, shutPc, shutCall>>

\* ---- MCPProtocol.shutdown

ShuttingDownError == Outcome("shutdown", 0, "", 0, 0)

\* Faulty variant: the loop is left out.
shutdownRejectAll_skip ==
  /\ trace' = <<>>
  /\ UNCHANGED <<calls, timers, pending>>

\* The loop that ends shutdown().
shutdownRejectAll ==
  /\ calls' = RejectAll(calls, pending, ShuttingDownError)
  /\ timers' = timers \ PendingCalls(pending)
  /\ pending' = <<>>
  /\ trace' = RejectAllTrace(pending)

\* shutdown() on an initialized engine issues the shutdown request and
\* awaits it; on any other engine it goes straight to the loop.
ShutdownCall ==
  /\ shutPc = "idle"
  /\ IF initialized
     THEN /\ Len(calls) < MaxReq
          /\ request(SHUTDOWN)
          /\ shutCall' = Len(calls) + 1
          /\ shutPc' = "awaitShutdown"
          /\ trace' = <<Effect("set", nextId), Effect("send", nextId)>>
          /\ UNCHANGED initialized
     ELSE /\ shutdownRejectAll
          /\ shutPc' = "done"
          /\ UNCHANGED <<nextId, initialized, sending, failing, sentMessages,
                         shutCall>>
  /\ UNCHANGED <<connected, procClosed, initPc, initCall>>

\* shutdown() after its request settled, whatever the outcome.
ShutdownResume ==
  /\ shutPc = "awaitShutdown"
  /\ Settled(shutCall)
  /\ initialized' = FALSE
  /\ shutdownRejectAll
  /\ shutPc' = "done"
  /\ UNCHANGED <<nextId, connected, procClosed, sending, failing,
                 sentMessages, initPc, initCall, shutCall>>

\* ---- the engine over its transport

InitProtocol ==
  /\ nextId = 1
  /\ pending = <<>>
  /\ timers = {}
  /\ initialized = FALSE
  /\ connected = TRUE
  /\ procClosed = FALSE
  /\ sending = {}
  /\ failing = {}
  /\ sentMessages = <<>>
  /\ calls = <<>>
  /\ initPc = "idle"
  /\ initCall = 0
  /\ shutPc = "idle"
  /\ shutCall = 0
  /\ trace = <<>>

NextProtocol ==
  \/ \E m \in ReqMethods : Request(m)
  \/ \E k \in 1..MaxReq : SendFail(k)
  \/ \E k \in 1..MaxReq : TimerFire(k)
  \/ \E msg \in Messages : HandleMessage(msg)
  \/ \E code \in Codes : TransportClose(code)
  \/ InitializeCall
  \/ InitializeResume
  \/ \E ok \in BOOLEAN : NotifyDone(ok)
  \/ ShutdownCall
  \/ ShutdownResume

\* The engine alone: no manager exists.
InitNoManager ==
  /\ servers = <<>>
  /\ managed = <<>>
  /\ threads = {}
  /\ ncalls = 0
  /\ mtrace = <<>>
  /\ stopped = {}
  /\ orphans = {}

\* A client that has never been connected.
InitNoClient ==
  /\ protocolSet = FALSE
  /\ cachedTools = FALSE
  /\ discPc = "idle"
  /\ ops = <<>>

\* new StdioTransport(options): "private process: ChildProcess | null =
\* null" and "private _isConnected = false".
InitNoTransport ==
  /\ process = 0
  /\ isConnected = FALSE
  /\ children = <<>>
  /\ tcalls = <<>>
  /\ stdout = <<>>
  /\ buffer = <<>>
  /\ emissions = <<>>
  /\ written = <<>>

\* "constructor(maxEntries = 10_000)": the default capacity of the audit
\* log.
maxEntries == 10000

\* The manifest file: state is "missing", "corrupt" (not valid JSON) or
\* "json" (a manifest as JSON.stringify writes it, with its servers in the
\* order of the text).
File(state, content) == [state |-> state, servers |-> content]

\* No router: empty manifest, no permission rules, empty audit log.
InitNoRouter ==
  /\ manifest = <<>>
  /\ file = File("missing", <<>>)
  /\ returned = <<>>
  /\ rules = <<>>
  /\ checked = <<>>
  /\ capacity = maxEntries
  /\ audit = <<>>
  /\ recorded = <<>>
  /\ queried = <<>>
  /\ invokes = <<>>
  /\ listings = <<>>

InitEngine == InitProtocol /\ InitNoManager /\ InitNoClient /\ InitNoRouter
  /\ InitNoTransport

SpecProtocol ==
  InitEngine /\ [][NextProtocol /\ UNCHANGED <<mgrVars, cliVars, rtrVars, trVars>>]_vars

\* ===================================================================== *
\* Properties of the protocol engine                                     *
\* ===================================================================== *

CallIds == 1..Len(calls)

\* C1: every caller that completes with a result or an MCPError completes
\* with the response whose id is the id allocated to its own request, and
\* with the payload the server gave for that id.
C1_ResponseMatchesCaller ==
  \A k \in CallIds :
    calls[k].outcome.kind \in {"result", "mcperror"} =>
      /\ calls[k].outcome.id = calls[k].id
      /\ calls[k].outcome.val = ServerPayload(calls[k].id)

\* Two requests were pending together and the second one's response came
\* first: the last callback resolved call 1 after call 2 had completed.
C1_Witness ==
  /\ Len(calls) = 2
  /\ calls[2].outcome.kind \in {"result", "mcperror"}
  /\ calls[1].outcome.kind = "result"
  /\ trace = <<Effect("delete", calls[1].id), Effect("clearTimeout", 1),
               Effect("resolve", 1)>>

\* C2: a request is pending, with its timer armed, exactly as long as its
\* promise is unsettled, and a settled promise never changes again: one
\* terminal event per request, after which its entry is out of the table.
C2_PendingIffUnsettled ==
  \A k \in CallIds :
    /\ ~Settled(k) <=> MapHas(pending, calls[k].id)
    /\ ~Settled(k) <=> k \in timers

C2_SettledIsFinal ==
  \A k \in CallIds : Settled(k) => calls'[k] = calls[k]

C2_ExactlyOneTerminalEvent ==
  []C2_PendingIffUnsettled /\ [][C2_SettledIsFinal]_vars

\* The catch callback of a failed send has run for a request that had
\* already been resolved by its response, while another request is pending:
\* its reject() came second and the result stands.
C2_Witness ==
  /\ Len(calls) = 2
  /\ calls[1].outcome.kind = "result"
  /\ trace = <<Effect("delete", calls[1].id), Effect("clearTimeout", 1),
               Effect("reject", 1)>>
  /\ ~Settled(2)

\* C3: the timer callback of a pending request deletes the entry and then
\* rejects with a timeout error naming the method and the id; a response
\* with the id of a timed-out request is dropped and changes nothing.
C3_TimerStep ==
  \A k \in 1..MaxReq :
    TimerFire(k) =>
      /\ ~Settled(k)
      /\ calls'[k].outcome = Outcome("timeout", calls[k].id, calls[k].method, 0, 0)
      /\ ~MapHas(pending', calls[k].id)
      /\ trace' = <<Effect("delete", calls[k].id), Effect("reject", k)>>

C3_LateResponseStep ==
  \A k \in CallIds :
    calls[k].outcome.kind = "timeout" =>
      \A e \in BOOLEAN :
        HandleMessage(Response(calls[k].id, e, ServerPayload(calls[k].id))) =>
          /\ UNCHANGED <<nextId, pending, timers, initialized, calls,
                         sentMessages>>
          /\ trace' = <<Effect("drop", calls[k].id)>>

C3_TimeoutThenDrop == [][C3_TimerStep /\ C3_LateResponseStep]_vars

\* A response has just been dropped whose request had timed out.
C3_Witness ==
  \E k \in CallIds :
    /\ calls[k].outcome.kind = "timeout"
    /\ trace = <<Effect("drop", calls[k].id)>>

\* C4: the close event of the transport leaves the engine not initialized
\* and the pending table empty, rejects every request that was pending with
\* the transport-closed error carrying the exit code, and emits the
\* engine's close event after all of these rejections.
C4_CloseStep ==
  \A code \in Codes :
    TransportClose(code) =>
      /\ ~initialized'
      /\ pending' = <<>>
      /\ \A i \in 1..Len(pending) :
           /\ calls'[pending[i].call].outcome.kind = "closed"
           /\ calls'[pending[i].call].outcome.code = code
      /\ Len(trace') = Len(pending) + 1
      /\ trace'[Len(trace')] = Effect("emit_close", code)
      /\ \A i \in 1..Len(pending) : trace'[i] = Effect("reject", pending[i].call)

C4_CloseRejectsAllThenEmits == [][C4_CloseStep]_vars

\* The transport closed with two requests pending.
C4_Witness ==
  /\ procClosed
  /\ Len(trace) = 3
  /\ trace[3].ev = "emit_close"
  /\ \A k \in CallIds : calls[k].outcome.kind = "closed"

InitializeRequestAt(i) ==
  /\ i \in 1..Len(sentMessages)
  /\ sentMessages[i].method = INITIALIZE
  /\ sentMessages[i].id # 0

InitializedNotificationAt(j) ==
  /\ j \in 1..Len(sentMessages)
  /\ sentMessages[j].method = INITIALIZED
  /\ sentMessages[j].id = 0

\* C5: the initialized notification is sent only after the initialize
\* request was sent and answered with a result; the engine is initialized
\* only after that notification was sent; a failed handshake sends no
\* further message and leaves the engine not initialized.
C5_HandshakeOrder ==
  /\ \A j \in 1..Len(sentMessages) :
       InitializedNotificationAt(j) =>
         /\ \E i \in 1..(j - 1) : InitializeRequestAt(i)
         /\ calls[initCall].outcome.kind = "result"
  /\ initialized =>
       /\ initPc = "done"
       /\ \E j \in 1..Len(sentMessages) : InitializedNotificationAt(j)
  /\ initPc = "failed" => ~initialized
  /\ (initPc = "failed" /\ calls[initCall].outcome.kind # "result") =>
       ~\E j \in 1..Len(sentMessages) : InitializedNotificationAt(j)

\* The handshake has completed.
C5_Witness ==
  /\ initialized
  /\ sentMessages = <<[id |-> 1, method |-> INITIALIZE],
                      [id |-> 0, method |-> INITIALIZED]>>

\* C6: the ids of the request() calls start at 1 and strictly increase in
\* call order, whatever became of the earlier requests, and the next id to
\* be allocated is larger than every id in the pending table.
C6_IdsStrictlyIncrease ==
  /\ Len(calls) > 0 => calls[1].id = 1
  /\ \A j, k \in CallIds : j < k => calls[j].id < calls[k].id
  /\ \A i \in 1..Len(pending) : pending[i].id < nextId
  /\ \A i, j \in 1..Len(pending) : i # j => pending[i].id # pending[j].id

\* A second id was allocated after the first request had timed out.
C6_Witness ==
  /\ Len(calls) = 2
  /\ calls[1].outcome.kind = "timeout"
  /\ MapHas(pending, calls[2].id)

\* shutdown() is called in this step.
ShutdownCalled == shutPc = "idle" /\ shutPc' # "idle"

\* shutdown() completes in this step.
ShutdownCompletes == shutPc # "done" /\ shutPc' = "done"

\* shutdown() sends the shutdown request exactly when the engine is
\* initialized, and nothing otherwise.
C33_RequestStep ==
  ShutdownCalled =>
    IF initialized
    THEN /\ shutPc' = "awaitShutdown"
         /\ Len(calls') = Len(calls) + 1
         /\ calls'[shutCall'].method = SHUTDOWN
         /\ connected =>
              sentMessages' =
                Append(sentMessages, [id |-> nextId, method |-> SHUTDOWN])
    ELSE /\ ShutdownCompletes
         /\ calls' = RejectAll(calls, pending, ShuttingDownError)
         /\ sentMessages' = sentMessages

\* shutdown() goes on whatever its request came to, and when it completes
\* the engine is not initialized, the pending table is empty, the timers
\* of the requests that were pending are cleared and each of them is
\* rejected with the error 'shutting down'.
C33_CompleteStep ==
  /\ shutPc = "awaitShutdown" /\ Settled(shutCall) /\ shutPc' # shutPc
       => ShutdownCompletes
  /\ ShutdownCompletes =>
       /\ ~initialized'
       /\ pending' = <<>>
       /\ timers' \cap PendingCalls(pending) = {}
       /\ \A k \in 1..Len(calls) :
            IF k \in PendingCalls(pending)
            THEN calls'[k].outcome = ShuttingDownError
            ELSE calls'[k] = calls[k]

C33_RejectedPending ==
  /\ shutPc = "done"
  /\ \E k \in 1..Len(calls) : calls[k].outcome = ShuttingDownError

\* ===================================================================== *
\* Part II: ServerManager over MCPClient, MCPProtocol and StdioTransport *
\* ===================================================================== *

\* The budget of calls on the manager in one behaviour: a call made while
\* nothing is in flight takes one unit, a call made while another call is
\* in flight takes two.
MaxCalls == 3

\* Number of calls on the manager that may be in flight at the same time.
MaxOverlap == 1

\* Server names the environment uses.
Names == {"a", "b"}

\* ServerConfig: the fields the manager itself reads.
Config(name, auto) == [name |-> name, autoStart |-> auto]

\* Length of the tools array the server returns for tools/list.
ServerToolCount == 2

\* toolCount: undefined.
NoCount == -1

\* ServerState; capabilities stands for capabilities and serverInfo, which
\* are always assigned together.
NewState(status) ==
  [status |-> status, capabilities |-> FALSE, startedAt |-> FALSE,
   toolCount |-> NoCount, error |-> FALSE]

\* A new MCPClient with the transport and engine it will own:
\*   protocol, transport, serverCapabilities : the client's references
\*   initialized                             : MCPProtocol.initialized
\*   isConnected, stdinEnded                 : StdioTransport._isConnected,
\*                                             stdin.end() has been called
\*   process : "none" | "spawning" | "alive" | "errored" | "exited"
NewClient ==
  [protocol |-> FALSE, transport |-> FALSE, serverCapabilities |-> FALSE,
   initialized |-> FALSE, isConnected |-> FALSE, stdinEnded |-> FALSE,
   process |-> "none"]

ManagedServer(config, status) ==
  [config |-> config, state |-> NewState(status), client |-> NewClient]

\* An async call at an await.  res is "" while the awaited promise is
\* unsettled, "ok" once it has resolved and "err" (for a start() awaited by
\* startAll, the error it threw) once it has rejected.  For startAll, all is
\* the configs it was given, rest those still to do and results its results
\* map, in insertion order.
\* The slot of the next call: the lowest one no call in flight holds.
CallSlot ==
  CHOOSE k \in 1..(Cardinality(threads) + 1) :
    /\ \A t \in threads : t.call # k
    /\ \A j \in 1..(k - 1) : \E t \in threads : t.call = j

\* Two fields are history: during, the other calls on the manager that have
\* been in flight together with this one, and emitted, the statuses this
\* call has emitted for the name it is working on.
Thread(call, op, config) ==
  [call |-> call, op |-> op, config |-> config, pc |-> "new", res |-> "ok",
   obj |-> 0, cont |-> "ret", rest |-> <<>>, all |-> <<>>,
   results |-> <<>>, during |-> {u.op : u \in threads}, emitted |-> <<>>]

\* The awaits that wait for a response of the server.
RequestPcs == {"init_wait", "tools_wait", "si_shutdown"}

\* The manager's heap while one callback runs; ev collects its effects.
World == [servers |-> servers, managed |-> managed, threads |-> threads,
          ev |-> <<>>]

\* The heap when a call op is made: the calls in flight have it made
\* meanwhile.
Meanwhile(op) ==
  [World EXCEPT !.threads = {[t EXCEPT !.during = @ \cup {op}] : t \in @}]

\* Thread t once it has emitted status for its name.
Emitting(t, status) == [t EXCEPT !.emitted = Append(@, status)]

Without(w, t) == [w EXCEPT !.threads = @ \ {t}]

AddThread(w, t) == [w EXCEPT !.threads = @ \cup {t}]

\* An effect of thread t that the callers and the handlers can see; res is
\* how the promise t awaited last has settled.
MEvent(ev, t, obj, state) ==
  [ev |-> ev, call |-> t.call, op |-> t.op, name |-> t.config.name,
   obj |-> obj, state |-> state, during |-> t.during, emitted |-> t.emitted,
   all |-> t.all, results |-> t.results, res |-> t.res]

\* Faulty variant: nothing is emitted.
emitStateChange_silent(w, t, c) == w

\* emitStateChange: handlers get a copy of the state; listed is what list()
\* shows them, by name, while they run.
emitStateChange(w, t, c) ==
  [w EXCEPT !.ev = Append(@, MEvent("stateChange", t, c, w.managed[c].state)
                               @@ [listed |-> {w.servers[i].id :
                                                 i \in 1..Len(w.servers)}])]

\* Faulty variant: the call returns without a word.
Throw_silent(w, t, kind) == w

\* "throw new Error(...)" of stop() and restart().
Throw(w, t, kind) ==
  [w EXCEPT !.ev = Append(@, MEvent("throw", t, 0, NewState(kind)))]

Return(w, t, c) ==
  [w EXCEPT !.ev = Append(@, MEvent("return", t, c,
                                     IF c = 0 THEN NewState("void")
                                     ELSE w.managed[c].state))]

\* ---- MCPProtocol and StdioTransport of client c

\* The pending table of c's engine: the calls awaiting a response.
Pending(w, c) ==
  {t \in w.threads : t.obj = c /\ t.pc \in RequestPcs /\ t.res = ""}

\* The loops of shutdown() and handleClose(): reject everything pending.
RejectPending(w, c) ==
  [w EXCEPT !.threads =
     {IF t \in Pending(w, c) THEN [t EXCEPT !.res = "err"] ELSE t : t \in @}]

\* StdioTransport.send accepts the message.
CanSend(w, c) ==
  /\ w.managed[c].client.isConnected
  /\ ~w.managed[c].client.stdinEnded

\* MCPProtocol.request by thread t at await pc: pending until a response, a
\* timeout or a close; rejected at once when send() throws.
protocolRequest(w, t, c, pc) ==
  AddThread(w, [t EXCEPT !.pc = pc, !.obj = c,
                         !.res = IF CanSend(w, c) THEN "" ELSE "err"])

\* A ManagedServer nothing refers to any more.
Collected == ManagedServer(Config("a", TRUE), "collected")

\* The slot of the next object created: a free one, or a new one.
Alloc(w) ==
  IF \E i \in 1..Len(w.managed) : w.managed[i] = Collected
  THEN CHOOSE i \in 1..Len(w.managed) :
         /\ w.managed[i] = Collected
         /\ \A j \in 1..(i - 1) : w.managed[j] # Collected
  ELSE Len(w.managed) + 1

\* new ManagedServer m, registered under its name.
Register(w, m) ==
  LET c == Alloc(w)
  IN [w EXCEPT !.managed = IF c <= Len(@) THEN [@ EXCEPT ![c] = m]
                           ELSE Append(@, m),
               !.servers = MapSet(@, [id |-> m.config.name, obj |-> c])]

\* ---- MCPClient.disconnect and ServerManager.stopInternal

\* The last statements of disconnect().
clearClient(w, c) ==
  [w EXCEPT !.managed[c].client.protocol = FALSE,
            !.managed[c].client.transport = FALSE,
            !.managed[c].client.serverCapabilities = FALSE]

\* disconnect() from "if (this.transport)": StdioTransport.close() up to its
\* promise, or the rest of disconnect() when there is no transport.
disconnectTransport(w, t) ==
  IF w.managed[t.obj].client.transport
  THEN AddThread([w EXCEPT !.managed[t.obj].client.isConnected = FALSE,
                           !.managed[t.obj].client.stdinEnded = TRUE],
                 [t EXCEPT !.pc = "si_close", !.res = ""])
  ELSE AddThread(clearClient(w, t.obj),
                 [t EXCEPT !.pc = "si_after_disconnect", !.res = "ok"])

\* The promise of a call on the manager resolves; stopAll resolves with the
\* last of its stopInternal calls.
returnCall(w, t) ==
  IF t.op = "stopAll" /\ \E u \in w.threads : u.call = t.call
  THEN w
  ELSE Return(w, t, 0)

\* Faulty variant: the runtime fields are left as they were.
StoppedState_keepFields(state) == [state EXCEPT !.status = "stopped"]

\* "managed.state.status = 'stopped'" and the five fields set to undefined.
StoppedState(state) ==
  [state EXCEPT !.status = "stopped", !.startedAt = FALSE,
                !.capabilities = FALSE, !.toolCount = NoCount,
                !.error = FALSE]

\* Faulty variant: what disconnect() throws is not caught.
stopInternalFinish_rethrow(w, t) ==
  LET w1 == [w EXCEPT !.managed[t.obj].state = StoppedState(@),
                      !.servers = MapDelete(@, t.config.name)]
      w2 == emitStateChange(w1, t, t.obj)
      u == Emitting(t, "stopped")
  IN IF t.res = "err"
     THEN Throw(w, t, "failed")
     ELSE IF t.cont = "ret"
          THEN returnCall(w2, u)
          ELSE AddThread(w2, [u EXCEPT !.pc = "si_ret", !.res = "ok"])

\* stopInternal after "await managed.client.disconnect()", whether it
\* returned or threw.
stopInternalFinish(w, t) ==
  LET w1 == [w EXCEPT !.managed[t.obj].state = StoppedState(@),
                      !.servers = MapDelete(@, t.config.name)]
      w2 == emitStateChange(w1, t, t.obj)
      u == Emitting(t, "stopped")
  IN IF t.cont = "ret"
     THEN returnCall(w2, u)
     ELSE AddThread(w2, [u EXCEPT !.pc = "si_ret", !.res = "ok"])

\* stopInternal(name) up to its first await; cont is where the caller goes on.
stopInternal(w, t, cont) ==
  IF ~MapHas(w.servers, t.config.name)
  THEN AddThread(w, [t EXCEPT !.pc = "si_ret", !.res = "ok", !.cont = cont])
  ELSE LET c == MapGet(w.servers, t.config.name).obj
           u == [t EXCEPT !.obj = c, !.cont = cont]
       IN IF w.managed[c].client.protocol
          THEN IF w.managed[c].client.initialized
               THEN protocolRequest(w, u, c, "si_shutdown")
               ELSE AddThread(RejectPending(w, c),
                              [u EXCEPT !.pc = "si_after_shutdown",
                                        !.res = "ok"])
          ELSE disconnectTransport(w, u)

\* ---- ServerManager.start

\* A start() call ends; inside startAll the loop goes on after its await.
startEnds(w, t, r) ==
  IF t.op = "startAll"
  THEN AddThread(w, [t EXCEPT !.pc = "sa_next", !.res = r])
  ELSE w

startThrows(w, t, kind) ==
  startEnds([w EXCEPT !.ev = Append(@, MEvent("start_throw", t, t.obj,
                                              NewState(kind)))],
            t, kind)

startReturns(w, t) ==
  startEnds([w EXCEPT !.ev = Append(@, MEvent("start_return", t, t.obj,
                                              w.managed[t.obj].state))],
            t, "ok")

\* Faulty variant: the failed entry stays in the map.
CatchDelete_keep(m, name) == m

\* "this.servers.delete(config.name)" of the catch block.
CatchDelete(m, name) == MapDelete(m, name)

\* Faulty variant: the handlers hear of the error before the entry goes.
startCatch_emitFirst(w, t) ==
  LET w1 == [w EXCEPT !.managed[t.obj].state.status = "error",
                      !.managed[t.obj].state.error = TRUE]
      w2 == emitStateChange(w1, t, t.obj)
  IN startThrows([w2 EXCEPT !.servers = CatchDelete(@, t.config.name)],
                 Emitting(t, "error"), "failed")

\* The catch block of start().
startCatch(w, t) ==
  LET w1 == [w EXCEPT !.managed[t.obj].state.status = "error",
                      !.managed[t.obj].state.error = TRUE,
                      !.servers = CatchDelete(@, t.config.name)]
  IN startThrows(emitStateChange(w1, t, t.obj), Emitting(t, "error"),
                 "failed")

\* start() from "new MCPClient" to the await inside StdioTransport.start().
startBody(w, t) ==
  LET c == Alloc(w)
      m == [ManagedServer(t.config, "starting")
              EXCEPT !.client.transport = TRUE, !.client.process = "spawning"]
  IN AddThread(emitStateChange(Register(w, m), t, c),
               [Emitting(t, "starting")
                  EXCEPT !.pc = "spawn_wait", !.obj = c, !.res = ""])

\* Faulty variant: a running entry is treated as stale.
IsRunning_never(state) == FALSE

\* "existing.state.status === 'running'".
IsRunning(state) == state.status = "running"

\* start(config) up to its first await.
start(w, t) ==
  IF MapHas(w.servers, t.config.name)
  THEN IF IsRunning(w.managed[MapGet(w.servers, t.config.name).obj].state)
       THEN startThrows(w, [t EXCEPT !.obj = 0], "already_running")
       ELSE stopInternal(w, t, "start_body")
  ELSE startBody(w, t)

\* connect() after "await this.transport.start()".
connectAfterStart(w, t) ==
  IF t.res = "ok"
  THEN protocolRequest([w EXCEPT !.managed[t.obj].client.protocol = TRUE],
                       t, t.obj, "init_wait")
  ELSE startCatch(w, t)

\* initialize() after "await this.request(INITIALIZE)": notify(INITIALIZED).
initializeAfterRequest(w, t) ==
  IF t.res = "ok" /\ CanSend(w, t.obj)
  THEN AddThread(w, [t EXCEPT !.pc = "notify_wait", !.res = ""])
  ELSE startCatch(w, t)

\* The try block of start() after "await client.connect()", up to the await
\* inside listTools().
startConnected(w, t) ==
  LET c == t.obj
      w1 == [w EXCEPT !.managed[c].client.initialized = TRUE,
                      !.managed[c].client.serverCapabilities = TRUE,
                      !.managed[c].state.status = "running",
                      !.managed[c].state.capabilities = TRUE,
                      !.managed[c].state.startedAt = TRUE]
  IN IF w1.managed[c].client.protocol
     THEN protocolRequest(w1, t, c, "tools_wait")
     ELSE AddThread(w1, [t EXCEPT !.pc = "tools_wait", !.res = "err"])

\* start() after "await client.listTools()".
startAfterListTools(w, t) ==
  LET w1 == [w EXCEPT !.managed[t.obj].state.toolCount =
                         IF t.res = "ok" THEN ServerToolCount ELSE 0]
  IN startReturns(emitStateChange(w1, t, t.obj), Emitting(t, "running"))

\* ---- ServerManager.startAll / stopAll

\* An entry of the results map of startAll: a name with the status and the
\* error message of its state.
Result(name, status, error) ==
  [id |-> name, status |-> status, error |-> error]

RECURSIVE startAllLoop(_, _)
\* The for loop of startAll from its next config to the next await.
startAllLoop(w, t) ==
  IF t.rest = <<>>
  THEN Return(w, t, 0)
  ELSE LET config == Head(t.rest)
           u == [t EXCEPT !.config = config, !.rest = Tail(@),
                          !.emitted = <<>>]
       IN IF ~config.autoStart
          THEN startAllLoop(Register(w, ManagedServer(config, "stopped")),
                            [u EXCEPT !.results =
                               MapSet(@, Result(config.name, "stopped", ""))])
          ELSE start(w, u)

\* Faulty variant: the loop ends at the first start that throws.
startAllAfterStart_abort(w, t) ==
  IF t.res = "ok"
  THEN startAllLoop(w, [t EXCEPT !.results =
                          MapSet(@, Result(t.config.name, "running", ""))])
  ELSE Return(w, [t EXCEPT !.results =
                    MapSet(@, Result(t.config.name, "error", t.res))], 0)

\* startAll after "await this.start(config)": the state start returned, or
\* an 'error' state with the message of what it threw, goes into results.
startAllAfterStart(w, t) ==
  startAllLoop(w, [t EXCEPT !.results =
                     MapSet(@, IF t.res = "ok"
                               THEN Result(t.config.name, "running", "")
                               ELSE Result(t.config.name, "error", t.res))])

\* Faulty variant: only the first name is stopped.
stopAllFrom_firstOnly(w, call, names) ==
  IF names = <<>>
  THEN w
  ELSE stopInternal(w, Thread(call, "stopAll", Config(Head(names), TRUE)),
                    "ret")

RECURSIVE stopAllFrom(_, _, _)
\* "names.map((name) => this.stopInternal(name))".
stopAllFrom(w, call, names) ==
  IF names = <<>>
  THEN w
  ELSE stopAllFrom(stopInternal(w, Thread(call, "stopAll",
                                           Config(Head(names), TRUE)), "ret"),
                   call, Tail(names))

\* ---- one callback of the event loop

Referenced(w) ==
  {w.servers[i].obj : i \in 1..Len(w.servers)}
    \cup {t.obj : t \in w.threads}

\* Objects nothing refers to any more are dropped; their children, if any
\* are left, run on without the manager.
Collect(w) ==
  LET r == Referenced(w) \cap DOMAIN w.managed
      n == IF r = {} THEN 0 ELSE CHOOSE c \in r : \A d \in r : d <= c
  IN [w EXCEPT !.managed =
        [c \in 1..n |-> IF c \in r THEN @[c] ELSE Collected]]

\* The transport of client c of heap w has a child that has not exited and
\* close() has not been called on it.
Live(w, c) ==
  /\ w.managed[c].client.transport
  /\ w.managed[c].client.process \in {"spawning", "alive"}
  /\ ~w.managed[c].client.stdinEnded

\* The names of the live clients that nothing refers to any more.
Orphaned(w) ==
  {w.managed[c].config.name :
     c \in {d \in DOMAIN w.managed \ Referenced(w) : Live(w, d)}}

\* The names whose stop(name) resolves in a callback with effects ev.
StopsResolved(ev) ==
  {ev[i].name : i \in {j \in 1..Len(ev) :
                         ev[j].ev = "return" /\ ev[j].op = "stop"}}

\* The state the callback leaves behind.
Commit(w) ==
  LET v == Collect(w)
  IN /\ servers' = v.servers
     /\ managed' = v.managed
     /\ threads' = v.threads
     /\ mtrace' = v.ev
     /\ stopped' = (stopped \cup StopsResolved(v.ev))
                      \ {v.servers[i].id : i \in 1..Len(v.servers)}
     /\ orphans' = orphans \cup Orphaned(w)

\* ---- calls of the environment

CallCost == IF threads = {} THEN 1 ELSE 2

NewCall ==
  /\ ncalls + CallCost <= MaxCalls
  /\ Cardinality({t.call : t \in threads}) < MaxOverlap
  /\ ncalls' = ncalls + CallCost
  /\ UNCHANGED <<protoVars, cliVars, rtrVars, trVars>>

StartCall(config) ==
  /\ NewCall
  /\ Commit(start(Meanwhile("start"), Thread(CallSlot, "start", config)))

StopCall(name) ==
  /\ NewCall
  /\ LET t == Thread(CallSlot, "stop", Config(name, TRUE))
     IN IF ~MapHas(servers, name)
        THEN Commit(Throw(Meanwhile("stop"), t, "not_found"))
        ELSE Commit(stopInternal(Meanwhile("stop"), t, "ret"))

\* Faulty variant: restart builds a config from the name.
RememberedConfig_fromName(name) == Config(name, TRUE)

\* "const config = managed.config" of restart().
RememberedConfig(name) == managed[MapGet(servers, name).obj].config

RestartCall(name) ==
  /\ NewCall
  /\ IF ~MapHas(servers, name)
     THEN Commit(Throw(Meanwhile("restart"),
                       Thread(CallSlot, "restart", Config(name, TRUE)),
                       "not_found"))
     ELSE Commit(stopInternal(Meanwhile("restart"),
                   Thread(CallSlot, "restart", RememberedConfig(name)),
                   "start_entry"))

StopAllCall ==
  /\ NewCall
  /\ IF servers = <<>>
     THEN Commit(Return(Meanwhile("stopAll"),
                        Thread(CallSlot, "stopAll", Config("a", TRUE)), 0))
     ELSE Commit(stopAllFrom(Meanwhile("stopAll"), CallSlot,
                             [i \in 1..Len(servers) |-> servers[i].id]))

\* The config lists handed to startAll.
ConfigLists ==
  {<<Config("a", FALSE)>>,
   <<Config("a", TRUE), Config("b", FALSE)>>,
   <<Config("b", FALSE), Config("a", TRUE)>>}

StartAllCall(configs) ==
  /\ NewCall
  /\ Commit(startAllLoop(Meanwhile("startAll"),
                          [Thread(CallSlot, "startAll", configs[1])
                             EXCEPT !.rest = configs, !.all = configs]))

\* ---- continuations of the awaits

\* initialize() after "await this.notify(INITIALIZED)".
initializeAfterNotify(w, t) ==
  IF t.res = "ok" THEN startConnected(w, t) ELSE startCatch(w, t)

\* shutdown() after its request settled either way, then transport.close().
disconnectAfterShutdown(w, t) ==
  disconnectTransport(
    RejectPending([w EXCEPT !.managed[t.obj].client.initialized = FALSE],
                  t.obj), t)

\* The caller of stopInternal goes on.
stopInternalReturn(w, t) ==
  CASE t.cont = "start_body" -> startBody(w, t)
    [] t.cont = "start_entry" -> start(w, t)
    [] OTHER -> returnCall(w, t)

\* The code thread t runs once the promise it awaits has settled as t.res.
Continue(w, t) ==
  CASE t.pc = "si_ret" -> stopInternalReturn(w, t)
    [] t.pc = "si_shutdown" -> disconnectAfterShutdown(w, t)
    [] t.pc = "si_after_shutdown" -> disconnectTransport(w, t)
    [] t.pc = "si_close" ->
         stopInternalFinish(IF t.res = "ok" THEN clearClient(w, t.obj) ELSE w,
                            t)
    [] t.pc = "si_after_disconnect" -> stopInternalFinish(w, t)
    [] t.pc = "spawn_wait" -> connectAfterStart(w, t)
    [] t.pc = "init_wait" -> initializeAfterRequest(w, t)
    [] t.pc = "notify_wait" -> initializeAfterNotify(w, t)
    [] t.pc = "tools_wait" -> startAfterListTools(w, t)
    [] t.pc = "sa_next" -> startAllAfterStart(w, t)

\* A promise that settled while its awaiter could not run yet (settled
\* already when awaited, or one of several settled by the same event): the
\* awaiter goes on in a callback of its own.
Resumes(t, pcs) ==
  /\ t \in threads
  /\ t.pc \in pcs
  /\ t.res # ""
  /\ UNCHANGED <<protoVars, cliVars, rtrVars, trVars, ncalls>>
  /\ Commit(Continue(Without(World, t), t))

StopInternalReturn(t) == Resumes(t, {"si_ret"})

DisconnectAfterShutdown(t) == Resumes(t, {"si_shutdown", "si_after_shutdown"})

DisconnectAfterClose(t) == Resumes(t, {"si_close"})

StopInternalAfterDisconnect(t) == Resumes(t, {"si_after_disconnect"})

ConnectAfterStart(t) == Resumes(t, {"spawn_wait"})

InitializeAfterRequest(t) == Resumes(t, {"init_wait"})

StartAfterListTools(t) == Resumes(t, {"tools_wait"})

StartAllResume(t) == Resumes(t, {"sa_next"})

\* ---- events of the child process, the server and the timers

Wake(w, ts, r) ==
  [w EXCEPT !.threads =
     {IF t \in ts THEN [t EXCEPT !.res = r] ELSE t : t \in @}]

\* An event settles the promise t awaits, and t alone goes on.
Settles(w, t, r) == Commit(Continue(Without(w, t), [t EXCEPT !.res = r]))

\* The unsettled promise of StdioTransport.start() of client c.
StartWaiters(w, c) ==
  {t \in w.threads : t.obj = c /\ t.pc = "spawn_wait" /\ t.res = ""}

\* The unsettled promises of StdioTransport.close() of client c.
CloseWaiters(w, c) ==
  {t \in w.threads : t.obj = c /\ t.pc = "si_close" /\ t.res = ""}

\* Promise continuations run before the next timer or I/O callback.
MicrotasksDone == \A t \in threads : t.res = ""

ChildEvent(c, from) ==
  /\ c \in DOMAIN managed
  /\ managed[c].client.process \in from
  /\ UNCHANGED <<protoVars, cliVars, rtrVars, trVars, ncalls>>

\* The promise of start() settles as r, if it is still unsettled.
SettleStart(w, c, r) ==
  IF StartWaiters(w, c) = {}
  THEN Commit(w)
  ELSE Settles(w, CHOOSE t \in StartWaiters(w, c) : TRUE, r)

\* 'spawn': settle(() => { _isConnected = true; resolve() }).
SpawnEvent(c) ==
  /\ ChildEvent(c, {"spawning"})
  /\ SettleStart([World EXCEPT
                    !.managed[c].client.process = "alive",
                    !.managed[c].client.isConnected =
                       IF StartWaiters(World, c) # {} THEN TRUE ELSE @],
                 c, "ok")

\* The 2 s fallback timer of start(), armed until the promise settles; the
\* child then counts as started.
SpawnTimer(c) ==
  /\ MicrotasksDone
  /\ ChildEvent(c, {"spawning"})
  /\ StartWaiters(World, c) # {}
  /\ SettleStart([World EXCEPT !.managed[c].client.process = "alive",
                               !.managed[c].client.isConnected = TRUE],
                 c, "ok")

\* 'error' of the child: _isConnected = false; settle(() => reject(err)).
SpawnError(c) ==
  /\ ChildEvent(c, {"spawning"})
  /\ SettleStart([World EXCEPT !.managed[c].client.process = "errored",
                               !.managed[c].client.isConnected = FALSE],
                 c, "err")

\* 'close' of the child: the transport's handler, the listener of start(),
\* the listeners of close(), and MCPProtocol.handleClose.
CloseEvent(c) ==
  /\ MicrotasksDone
  /\ ChildEvent(c, {"spawning", "alive", "errored"})
  /\ Commit(Wake(Wake(RejectPending(
                   [World EXCEPT !.managed[c].client.process = "exited",
                                 !.managed[c].client.isConnected = FALSE,
                                 !.managed[c].client.initialized = FALSE], c),
                 StartWaiters(World, c), "err"),
            CloseWaiters(World, c), "ok"))

Awaits(t, pcs) ==
  /\ MicrotasksDone
  /\ t \in threads
  /\ t.pc \in pcs
  /\ UNCHANGED <<protoVars, cliVars, rtrVars, trVars, ncalls>>

ChildReads(c) == managed[c].client.process \in {"spawning", "alive"}

\* handleMessage with the response to the request t awaits.
ServerResponse(t, ok) ==
  /\ Awaits(t, RequestPcs)
  /\ ChildReads(t.obj)
  /\ Settles(World, t, IF ok THEN "ok" ELSE "err")

\* The timer of request() fires.
RequestTimeout(t) ==
  /\ Awaits(t, RequestPcs)
  /\ Settles(World, t, "err")

\* The write of a request fails: the catch of transport.send(message).
RequestSendFail(t) ==
  /\ Awaits(t, RequestPcs)
  /\ Settles(World, t, "err")

\* The write callback of the initialized notification; a write cannot
\* succeed once the child's streams have closed.
NotifyWritten(t, ok) ==
  /\ Awaits(t, {"notify_wait"})
  /\ ok => ChildReads(t.obj)
  /\ Settles(World, t, IF ok THEN "ok" ELSE "err")

\* The 5 s timer of close(): kill('SIGKILL'); resolve().
CloseTimer(t) ==
  /\ Awaits(t, {"si_close"})
  /\ Settles(World, t, "ok")

\* The executor of close() throws at stdin.end() or kill('SIGTERM'): the
\* promise of close() is rejected and disconnect() throws, leaving the
\* client's references as they are.
CloseThrows(t) ==
  /\ Awaits(t, {"si_close"})
  /\ Settles(World, t, "err")

\* ---- the manager with its servers

InitManager == InitProtocol /\ InitNoManager /\ InitNoClient /\ InitNoRouter
  /\ InitNoTransport

StartConfigs == {Config(n, TRUE) : n \in Names}

NextManager ==
  \/ \E config \in StartConfigs : StartCall(config)
  \/ \E name \in Names : StopCall(name)
  \/ \E name \in Names : RestartCall(name)
  \/ StopAllCall
  \/ \E configs \in ConfigLists : StartAllCall(configs)
  \/ \E t \in threads : StopInternalReturn(t)
  \/ \E t \in threads : DisconnectAfterShutdown(t)
  \/ \E t \in threads : DisconnectAfterClose(t)
  \/ \E t \in threads : StopInternalAfterDisconnect(t)
  \/ \E t \in threads : ConnectAfterStart(t)
  \/ \E t \in threads : InitializeAfterRequest(t)
  \/ \E t \in threads : StartAfterListTools(t)
  \/ \E t \in threads : StartAllResume(t)
  \/ \E c \in DOMAIN managed : SpawnEvent(c)
  \/ \E c \in DOMAIN managed : SpawnTimer(c)
  \/ \E c \in DOMAIN managed : SpawnError(c)
  \/ \E c \in DOMAIN managed : CloseEvent(c)
  \/ \E t \in threads, ok \in BOOLEAN : ServerResponse(t, ok)
  \/ \E t \in threads : RequestTimeout(t)
  \/ \E t \in threads : RequestSendFail(t)
  \/ \E t \in threads, ok \in BOOLEAN : NotifyWritten(t, ok)
  \/ \E t \in threads : CloseTimer(t)

SpecManager == InitManager /\ [][NextManager]_vars

\* The manager with one server, started, registered without a start and
\* stopped, and with a close() that may throw.
NextStopping ==
  \/ StartCall(Config("a", TRUE))
  \/ StartAllCall(<<Config("a", FALSE)>>)
  \/ StopCall("a")
  \/ \E t \in threads : StopInternalReturn(t)
  \/ \E t \in threads : DisconnectAfterShutdown(t)
  \/ \E t \in threads : DisconnectAfterClose(t)
  \/ \E t \in threads : StopInternalAfterDisconnect(t)
  \/ \E t \in threads : ConnectAfterStart(t)
  \/ \E t \in threads : InitializeAfterRequest(t)
  \/ \E t \in threads : StartAfterListTools(t)
  \/ \E c \in DOMAIN managed : SpawnEvent(c)
  \/ \E c \in DOMAIN managed : SpawnTimer(c)
  \/ \E c \in DOMAIN managed : SpawnError(c)
  \/ \E c \in DOMAIN managed : CloseEvent(c)
  \/ \E t \in threads, ok \in BOOLEAN : ServerResponse(t, ok)
  \/ \E t \in threads : RequestTimeout(t)
  \/ \E t \in threads : RequestSendFail(t)
  \/ \E t \in threads, ok \in BOOLEAN : NotifyWritten(t, ok)
  \/ \E t \in threads : CloseTimer(t)
  \/ \E t \in threads : CloseThrows(t)

\* The timers of request() and close()
StopTimers == \E t \in threads : RequestTimeout(t) \/ CloseTimer(t)

\* The awaits a settled promise resumes in a callback of its own.
ResumePcs ==
  {"si_ret", "si_shutdown", "si_after_shutdown", "si_close",
   "si_after_disconnect", "spawn_wait", "init_wait", "tools_wait"}

StopContinuations == \E t \in threads : Resumes(t, ResumePcs)

\* Timers that are armed fire and promises that have settled resume their
\* awaiters; the child and the callers owe nothing.
FairManager ==
  /\ InitManager
  /\ [][NextStopping]_vars
  /\ WF_vars(StopTimers)
  /\ WF_vars(StopContinuations)

\* ---- what the manager shows

\* list(): the states of the active map, in its order.
list == [i \in 1..Len(servers) |-> managed[servers[i].obj].state]

\* get(name), for a name of the active map.
get(name) == managed[MapGet(servers, name).obj].state

\* getClient(name): the client of a running entry, 0 for undefined.
getClient(name) ==
  IF MapHas(servers, name) /\ get(name).status = "running"
  THEN MapGet(servers, name).obj
  ELSE 0

\* ===================================================================== *
\* Properties of the server manager                                      *
\* ===================================================================== *

\* The calls in flight without their history of overlaps.
InFlight == {[t EXCEPT !.during = {}] : t \in threads}

\* The effects of the last callback.
Effects(ev) == {mtrace[i] : i \in {j \in 1..Len(mtrace) : mtrace[j].ev = ev}}

\* C7 as stated: after every start(config) that throws, whatever the reason,
\* list() does not contain config.name and a new start(config) is not
\* turned down.
C7_EveryThrowClearsName ==
  \A e \in Effects("start_throw") : ~MapHas(servers, e.name)

\* C7, amended: after every start(config) that throws for a reason other than
\* the name being already running, list() does not contain config.name, so
\* that a new start(config) finds no entry and begins a fresh attempt.
C7_FailedStartClearsName ==
  \A e \in Effects("start_throw") :
    e.state.status # "already_running" => ~MapHas(servers, e.name)

\* A start has just failed in its try block, and its name is gone.
C7_Witness ==
  \E e \in Effects("start_throw") :
    e.state.status = "failed" /\ ~MapHas(servers, e.name)

\* C8: a server whose status is 'running', whose client getClient(name)
\* returns, has a live child, a connected transport and an initialized
\* protocol engine.
C8_RunningIsLive ==
  \A name \in Names :
    getClient(name) # 0 =>
      /\ managed[getClient(name)].client.transport
      /\ managed[getClient(name)].client.isConnected
      /\ managed[getClient(name)].client.process = "alive"
      /\ managed[getClient(name)].client.protocol
      /\ managed[getClient(name)].client.initialized

\* C9: no entry of the active map has status 'error', so neither list() nor
\* get() shows one, and a start that failed has emitted a state-change event
\* with status 'error' for its name before throwing.
C9_NoErrorEntry ==
  /\ \A i \in 1..Len(list) : list[i].status # "error"
  /\ \A name \in Names : MapHas(servers, name) => get(name).status # "error"
  /\ \A j \in 1..Len(mtrace) :
       (mtrace[j].ev = "start_throw" /\ mtrace[j].state.status = "failed") =>
         \E i \in 1..(j - 1) :
           /\ mtrace[i].ev = "stateChange"
           /\ mtrace[i].name = mtrace[j].name
           /\ mtrace[i].state.status = "error"

\* A failed start has just reported 'error' while another server is listed.
C9_Witness ==
  /\ \E e \in Effects("stateChange") : e.state.status = "error"
  /\ Len(list) > 0

\* C10, first half: a start(config) call that finds a running entry of that
\* name throws 'already running' and leaves the map, every entry with its
\* client and state, and the calls in flight as they were; no child is
\* spawned and no state-change event is emitted.
C10_RunningStep ==
  \A config \in StartConfigs :
    (/\ StartCall(config)
     /\ MapHas(servers, config.name)
     /\ get(config.name).status = "running")
    => /\ UNCHANGED <<servers, managed, InFlight>>
       /\ Len(mtrace') = 1
       /\ mtrace'[1].ev = "start_throw"
       /\ mtrace'[1].state.status = "already_running"

\* C10, second half, at the call: a start(config) call that finds an entry
\* that is not running begins with the internal stop of that entry; it makes
\* no new entry and spawns no child in that callback.
C10_StaleStep ==
  \A config \in StartConfigs :
    (/\ StartCall(config)
     /\ MapHas(servers, config.name)
     /\ get(config.name).status # "running")
    => /\ \E t \in threads' \ threads :
            /\ t.pc \in {"si_shutdown", "si_after_shutdown", "si_close",
                         "si_after_disconnect"}
            /\ t.obj = MapGet(servers, config.name).obj
            /\ t.cont = "start_body"
       /\ Effects("stateChange")' = {}
       /\ \A c \in DOMAIN managed' :
            managed'[c].state.status = "starting" =>
              c \in DOMAIN managed /\ managed[c].state.status = "starting"
       /\ \A c \in DOMAIN managed' :
            managed'[c].client.process = "spawning" =>
              c \in DOMAIN managed /\ managed[c].client.process = "spawning"

\* C10, second half, at the new attempt: when a start is about to create its
\* new entry after an internal stop, the entry it found at the call is out of
\* the map and no longer 'starting' or 'running'.
C10_EvictedBeforeAttempt ==
  \A t \in threads :
    (t.pc = "si_ret" /\ t.cont = "start_body") =>
      /\ \A i \in 1..Len(servers) : servers[i].obj # t.obj
      /\ managed[t.obj].state.status \in {"stopped", "error"}

\* C10: start on a running name fails and changes nothing; start on a name
\* whose entry is not running evicts that entry before the new attempt.
C10_StartOnExistingName ==
  /\ []C10_EvictedBeforeAttempt
  /\ [][C10_RunningStep /\ C10_StaleStep]_vars

\* A start has just been turned down because its name is running.
C10_Witness ==
  \E e \in Effects("start_throw") :
    /\ e.state.status = "already_running"
    /\ MapHas(servers, e.name)
    /\ get(e.name).status = "running"

\* ---- stop

\* The awaits of stopInternal inside "await managed.client.disconnect()".
DisconnectPcs ==
  {"si_shutdown", "si_after_shutdown", "si_close", "si_after_disconnect"}

\* The state-change events the call of effect e has emitted for its name in
\* the last callback, as positions of mtrace.
ChangesOf(e) ==
  {i \in 1..Len(mtrace) : /\ mtrace[i].ev = "stateChange"
                          /\ mtrace[i].call = e.call
                          /\ mtrace[i].name = e.name}

\* C11, unknown name: a stop(name) call for a name that is not in the active
\* map throws 'not found' and leaves the map, the entries and the calls in
\* flight as they were, emitting nothing.
C11_UnknownStep ==
  \A name \in Names :
    (StopCall(name) /\ ~MapHas(servers, name)) =>
      /\ UNCHANGED <<servers, managed, InFlight, stopped>>
      /\ Len(mtrace') = 1
      /\ mtrace'[1].ev = "throw"
      /\ mtrace'[1].state.status = "not_found"

\* C11, known name, at the call: stop(name) asks the client of the entry to
\* disconnect and waits for it.
C11_KnownStep ==
  \A name \in Names :
    (StopCall(name) /\ MapHas(servers, name)) =>
      /\ \E t \in threads' \ threads :
           /\ t.call = CallSlot
           /\ t.op = "stop"
           /\ t.pc \in DisconnectPcs
           /\ t.obj = MapGet(servers, name).obj
      /\ Effects("throw")' = {}

\* C11, known name, when stop resolves: the name is absent from list(), get()
\* and getClient(), and the call has emitted exactly one state-change event
\* for it, with status 'stopped' and the runtime fields cleared, before it
\* resolved.
C11_Resolved ==
  \A j \in 1..Len(mtrace) :
    (mtrace[j].ev = "return" /\ mtrace[j].op = "stop") =>
      /\ ~MapHas(servers, mtrace[j].name)
      /\ getClient(mtrace[j].name) = 0
      /\ Cardinality(ChangesOf(mtrace[j])) = 1
      /\ \A i \in ChangesOf(mtrace[j]) :
           i < j /\ mtrace[i].state = NewState("stopped")

\* C11: a stop call emits nothing in any callback but the one in which it
\* resolves, and it resolves from the continuation of the disconnect.
C11_OnlyAtResolve ==
  /\ \A e \in Effects("stateChange") :
       e.op = "stop" =>
         \E r \in Effects("return") : r.op = "stop" /\ r.call = e.call
  /\ \A r \in Effects("return") :
       r.op = "stop" => \A t \in threads : t.call # r.call

C12_SecondStopSucceeds ==
  [][\A name \in Names :
       (StopCall(name) /\ name \in stopped) =>
         /\ Effects("throw")' = {}
         /\ UNCHANGED <<servers, managed, InFlight>>]_vars

\* After stop(name) has resolved the name stays out of the active map until
\* it is registered again.
C12_StoppedIsUnknown == \A name \in stopped : ~MapHas(servers, name)

\* C12, amended: a stop(name) call made after a first stop(name) has
\* resolved leaves the manager as the first call left it, and fails with
\* 'not found'.
C12_SecondStopNotFound ==
  /\ []C12_StoppedIsUnknown
  /\ [][\A name \in Names :
         (StopCall(name) /\ name \in stopped) =>
           /\ UNCHANGED <<servers, managed, InFlight, stopped>>
           /\ Len(mtrace') = 1
           /\ mtrace'[1].ev = "throw"
           /\ mtrace'[1].op = "stop"
           /\ mtrace'[1].name = name
           /\ mtrace'[1].state.status = "not_found"]_vars

\* A second stop of a name has just been turned down.
C12_Witness ==
  \E e \in Effects("throw") :
    e.op = "stop" /\ e.state.status = "not_found" /\ e.name \in stopped

\* ---- restart

\* The awaits of start() after the new entry is registered.
StartPcs == {"spawn_wait", "init_wait", "notify_wait", "tools_wait"}

\* C13, unknown name: restart(name) throws 'not found' and changes nothing.
C13_UnknownStep ==
  \A name \in Names :
    (RestartCall(name) /\ ~MapHas(servers, name)) =>
      /\ UNCHANGED <<servers, managed, InFlight, stopped>>
      /\ Len(mtrace') = 1
      /\ mtrace'[1].ev = "throw"
      /\ mtrace'[1].op = "restart"
      /\ mtrace'[1].state.status = "not_found"

\* C13, known name, at the call: restart(name) keeps the config of the entry
\* and begins with the internal stop of that entry.
C13_KnownStep ==
  \A name \in Names :
    (RestartCall(name) /\ MapHas(servers, name)) =>
      \E t \in threads' \ threads :
        /\ t.call = CallSlot
        /\ t.op = "restart"
        /\ t.config = managed[MapGet(servers, name).obj].config
        /\ t.obj = MapGet(servers, name).obj
        /\ t.pc \in DisconnectPcs
        /\ t.cont = "start_entry"
        /\ t.emitted = <<>>

\* C13, while a restart that no other call overlaps is in flight: nothing is
\* emitted before the internal stop is over, 'stopped' when it is over,
\* then 'starting' with the new entry, which carries the remembered config.
C13_InFlight ==
  \A t \in threads :
    (t.op = "restart" /\ t.during = {}) =>
      /\ t.pc \in DisconnectPcs \cup {"si_ret"} \cup StartPcs
      /\ t.pc \in DisconnectPcs => t.emitted = <<>>
      /\ t.pc = "si_ret" =>
           t.emitted = <<"stopped">> /\ ~MapHas(servers, t.config.name)
      /\ t.pc \in StartPcs =>
           /\ t.emitted = <<"stopped", "starting">>
           /\ MapHas(servers, t.config.name)
           /\ MapGet(servers, t.config.name).obj = t.obj
           /\ managed[t.obj].config = t.config

\* C13, when a restart that no other call overlaps ends: it has emitted
\* 'stopped', 'starting' and then 'running' (on success, with the server
\* running under the remembered config) or 'error' (on failure).
C13_AtEnd ==
  \A e \in Effects("start_return") \cup Effects("start_throw")
            \cup Effects("return") :
    (e.op = "restart" /\ e.during = {}) =>
      \/ /\ e.ev = "start_return"
         /\ e.emitted = <<"stopped", "starting", "running">>
         /\ getClient(e.name) = e.obj
         /\ e.state.status = "running"
      \/ /\ e.ev = "start_throw"
         /\ e.state.status = "failed"
         /\ e.emitted = <<"stopped", "starting", "error">>

\* C13, config: when a restart that no other call overlaps succeeds, the
\* running entry has the config the entry had before the restart.
C13_ConfigStep ==
  \A t \in threads :
    (/\ t.op = "restart"
     /\ t.during = {}
     /\ \E e \in Effects("start_return")' : e.call = t.call) =>
      /\ MapHas(servers', t.config.name)
      /\ managed'[MapGet(servers', t.config.name).obj].config = t.config
      /\ managed'[MapGet(servers', t.config.name).obj].state.status =
           "running"

\* C13: restart(name) fails with 'not found' for an unknown name; for a
\* known name it stops the entry and starts it again with the config the
\* entry had, emitting 'stopped', then 'starting', then 'running' or 'error'.
C13_Restart ==
  /\ [](C13_InFlight /\ C13_AtEnd)
  /\ [][C13_UnknownStep /\ C13_KnownStep /\ C13_ConfigStep]_vars

\* A restart of a server registered with autoStart false has succeeded: the
\* server runs with that config.
C13_Witness ==
  \E e \in Effects("start_return") :
    /\ e.op = "restart"
    /\ e.emitted = <<"stopped", "starting", "running">>
    /\ ~managed[e.obj].config.autoStart

\* ---- stopAll

\* The calls that register a name.
StartOps == {"start", "restart", "startAll"}

\* C14, at the call: stopAll() begins the internal stop of every server in
\* the active map, asking its client to disconnect.
C14_CallStep ==
  StopAllCall =>
    \A i \in 1..Len(servers) :
      \E t \in threads' \ threads :
        /\ t.call = CallSlot
        /\ t.op = "stopAll"
        /\ t.config.name = servers[i].id
        /\ t.obj = servers[i].obj
        /\ t.pc \in DisconnectPcs

\* C14, each server: an internal stop of stopAll() ends by emitting 'stopped'
\* with cleared runtime fields for its server, whose name is then out of the
\* active map.
C14_EachStep ==
  \A t \in threads :
    (/\ t.op = "stopAll"
     /\ \A u \in threads' : ~(u.call = t.call /\ u.config = t.config)) =>
      /\ \E e \in Effects("stateChange")' :
           /\ e.call = t.call
           /\ e.name = t.config.name
           /\ e.obj = t.obj
           /\ e.state = NewState("stopped")
      /\ ~MapHas(servers', t.config.name)

\* C14, at the end: stopAll() never throws; it resolves when the last of its
\* internal stops is over, and then, unless a start, restart or startAll was
\* in flight together with it, list() is empty.
C14_Resolved ==
  /\ \A e \in Effects("throw") \cup Effects("start_throw") :
       e.op # "stopAll"
  /\ \A r \in Effects("return") :
       r.op = "stopAll" =>
         /\ \A t \in threads : t.call # r.call
         /\ r.during \cap StartOps = {} => list = <<>>

StartAllReturns == {r \in Effects("return") : r.op = "startAll"}

\* C15, the results: startAll() never throws, and its results map has one
\* entry per config, in the order of the configs, whatever came before: the
\* status 'stopped' for a config with autoStart false, 'running' or 'error'
\* with the message of the error for any other.
C15_Results ==
  /\ \A e \in Effects("throw") : e.op # "startAll"
  /\ \A r \in StartAllReturns :
       /\ Len(r.results) = Len(r.all)
       /\ \A i \in 1..Len(r.all) :
            /\ r.results[i].id = r.all[i].name
            /\ ~r.all[i].autoStart =>
                 r.results[i].status = "stopped" /\ r.results[i].error = ""
            /\ r.all[i].autoStart =>
                 \/ r.results[i].status = "running" /\ r.results[i].error = ""
                 \/ r.results[i].status = "error" /\ r.results[i].error # ""

\* C15, the active map when a startAll() that no other call overlaps
\* resolves: a 'stopped' result is a registered entry without a process, a
\* 'running' result a running entry.
C15_Registered ==
  \A r \in StartAllReturns :
    r.during = {} =>
      \A i \in 1..Len(r.results) :
        /\ r.results[i].status = "stopped" =>
             /\ MapHas(servers, r.results[i].id)
             /\ get(r.results[i].id) = NewState("stopped")
             /\ managed[MapGet(servers, r.results[i].id).obj].client
                  = NewClient
        /\ r.results[i].status = "running" =>
             /\ MapHas(servers, r.results[i].id)
             /\ get(r.results[i].id).status = "running"

\* C15 as stated: when startAll() resolves, every config whose start failed
\* is absent from list().
C15_ErrorIsAbsent ==
  \A r \in StartAllReturns :
    r.during = {} =>
      \A i \in 1..Len(r.results) :
        r.results[i].status = "error" => ~MapHas(servers, r.results[i].id)

\* C15, amended: when startAll() resolves, every config whose start failed
\* for a reason other than its name being already running is absent from
\* list(); a config turned down as already running is in the results as
\* 'error' while the running entry of its name stays listed.
C15_FailedIsAbsent ==
  \A r \in StartAllReturns :
    r.during = {} =>
      \A i \in 1..Len(r.results) :
        r.results[i].status = "error" =>
          IF r.results[i].error = "already_running"
          THEN /\ MapHas(servers, r.results[i].id)
               /\ get(r.results[i].id).status = "running"
          ELSE ~MapHas(servers, r.results[i].id)

\* C15, amended: startAll(configs) never rejects and handles every config in
\* order; registered, running and failed configs are in the results and in
\* the active map as above.
C15_StartAll == C15_Results /\ C15_Registered /\ C15_FailedIsAbsent

\* startAll() has just resolved after a failed start of its first config
\* and the registration of its second.
C15_Witness ==
  \E r \in StartAllReturns :
    /\ Len(r.results) = 2
    /\ r.results[1].status = "error"
    /\ r.results[1].error = "failed"
    /\ r.results[2].status = "stopped"
    /\ ~MapHas(servers, r.results[1].id)
    /\ MapHas(servers, r.results[2].id)

\* ---- state-change events

\* The status of name that list() and get() show, "absent" when they show
\* none.
Status(name) == IF MapHas(servers, name) THEN get(name).status ELSE "absent"

\* The callback has changed the status that list() and get() show for name.
Transition(name) == Status(name)' \notin {Status(name), "absent"}

\* The transition of name is reported: by an event of this callback, or, for
\* 'running', by the event start() emits once the tool count is in.
Reported(name) ==
  \/ \E e \in Effects("stateChange")' :
       e.name = name /\ e.state.status = Status(name)'
  \/ /\ Status(name)' = "running"
     /\ \E t \in threads' :
          t.obj = MapGet(servers', name).obj /\ t.pc = "tools_wait"

\* C16: every change of the status shown by list() and get(), the
\* registration of a slot as 'stopped' included, comes with a stateChange
\* event for that name carrying the new status.
C16_EveryTransitionFires ==
  [][\A name \in Names : Transition(name) => Reported(name)]_vars

\* ---- the events of a start that fails

StartStatuses == {"starting", "running", "error"}

IsStartStatus(status) == status \in StartStatuses

\* Event j of the last callback is the throw of a start() and, with
\* tryOnly, one thrown by its catch block.
StartThrew(j, tryOnly) ==
  /\ mtrace[j].ev = "start_throw"
  /\ tryOnly => mtrace[j].state.status = "failed"

\* The start() that throws as event j has emitted for its name 'starting'
\* once, then 'error' once, and never 'running'; the 'error' event came
\* before the throw, carries the message and was delivered with the name
\* off the list.
FailedStartEvents(j) ==
  /\ SelectSeq(mtrace[j].emitted, IsStartStatus) = <<"starting", "error">>
  /\ \E i \in 1..(j - 1) :
       /\ mtrace[i].ev = "stateChange"
       /\ mtrace[i].call = mtrace[j].call
       /\ mtrace[i].name = mtrace[j].name
       /\ mtrace[i].state.status = "error"
       /\ mtrace[i].state.error
       /\ mtrace[i].name \notin mtrace[i].listed
       /\ \A k \in 1..(j - 1) :
            (/\ mtrace[k].ev = "stateChange"
             /\ mtrace[k].call = mtrace[j].call
             /\ mtrace[k].name = mtrace[j].name) => k = i

\* C35 as stated: each start that fails, whatever the reason, emits for
\* its name exactly one 'starting' event followed by exactly one 'error'
\* event carrying the message, and no 'running' event; the name is off the
\* list when the 'error' event is delivered.
C35_EveryFailedStart ==
  \A j \in 1..Len(mtrace) : StartThrew(j, FALSE) => FailedStartEvents(j)

\* C35, amended: each start that fails for a reason other than the name
\* being already running emits for its name exactly one 'starting' event
\* followed by exactly one 'error' event carrying the message, and no
\* 'running' event; the name is off the list when the 'error' event is
\* delivered.
C35_FailedStartEvents ==
  \A j \in 1..Len(mtrace) : StartThrew(j, TRUE) => FailedStartEvents(j)

\* A start that first evicted a stale entry of its name has just failed in
\* its try block, having emitted 'stopped', 'starting' and 'error'.
C35_Witness ==
  \E j \in 1..Len(mtrace) :
    /\ StartThrew(j, TRUE)
    /\ FailedStartEvents(j)
    /\ mtrace[j].emitted = <<"stopped", "starting", "error">>

\* ---- stop(name) completes

\* Call k is a stop(name) that has found its entry and is at an await.
Stopping(name, k) ==
  \E t \in threads : t.op = "stop" /\ t.call = k /\ t.config.name = name

\* Call k, a stop(name), resolves in this callback: it has emitted
\* 'stopped' for the name, once, and the name is off the map.
Stopped(name, k) ==
  /\ ~MapHas(servers, name)
  /\ \E j \in 1..Len(mtrace) :
       /\ mtrace[j].ev = "return"
       /\ mtrace[j].op = "stop"
       /\ mtrace[j].call = k
       /\ mtrace[j].name = name
       /\ mtrace[j].emitted = <<"stopped">>
       /\ \E i \in 1..(j - 1) :
            /\ mtrace[i].ev = "stateChange"
            /\ mtrace[i].call = k
            /\ mtrace[i].name = name
            /\ mtrace[i].state.status = "stopped"

\* A stop call leaves its awaits only by resolving, with the name off the
\* map and 'stopped' emitted.
C34_Step ==
  \A name \in Names, k \in 1..MaxOverlap :
    (Stopping(name, k) /\ ~Stopping(name, k)') => Stopped(name, k)'

NoStopInFlight == \A t \in threads : t.op # "stop"

\* C34: a stop(name) that has found its entry resolves in the end, with
\* the name removed from the active map and the 'stopped' event emitted,
\* whether or not the child answers the shutdown request, disconnect()
\* throws, or the child exits on the terminate signal: no stop call stays
\* in flight for ever, and none ends in another way.
C34_StopCompletes == [][C34_Step]_vars /\ []<>NoStopInFlight

\* A stop has just resolved although its disconnect() threw.
C34_Witness ==
  \E name \in Names, k \in 1..MaxOverlap :
    /\ Stopped(name, k)
    /\ \E j \in 1..Len(mtrace) :
         mtrace[j].ev = "return" /\ mtrace[j].call = k /\ mtrace[j].res = "err"

\* ---- the clients the manager holds

\* Client c is the one stored in the active map under its name.
Stored(c) ==
  \E i \in 1..Len(servers) :
    servers[i].obj = c /\ servers[i].id = managed[c].config.name

\* C39: every client whose child is running and on which close() has not
\* been called is the one the active map holds under its name, so that no
\* live child is out of the manager's reach and no name has two live
\* clients; the manager has never let go of a live one.
C39_LiveClientsStored ==
  /\ orphans = {}
  /\ \A c \in DOMAIN managed : Live(World, c) => Stored(c)

\* C39, what does hold: the active map has one entry per name, and the
\* clients of two entries are two objects.
C39_OneEntryPerName ==
  \A i, j \in 1..Len(servers) :
    (servers[i].id = servers[j].id \/ servers[i].obj = servers[j].obj)
      => i = j

\* ===================================================================== *
\* Part III: MCPClient over the engine of Part I                          *
\* ===================================================================== *

\* Number of operations called on the client in one behaviour.
MaxOps == 2

\* The operations of the client that talk to the server, each with the
\* method it requests.
ClientOps ==
  {"listTools", "callTool", "getTool", "listResources", "readResource",
   "listPrompts", "getPrompt"}

Method(op) ==
  CASE op \in {"listTools", "getTool"} -> TOOLS_LIST
    [] op = "callTool" -> TOOLS_CALL
    [] op = "listResources" -> RESOURCES_LIST
    [] op = "readResource" -> RESOURCES_READ
    [] op = "listPrompts" -> PROMPTS_LIST
    [] op = "getPrompt" -> PROMPTS_GET

\* Faulty variant: an engine, initialized or not.
EngineReady_anyEngine == protocolSet

\* "this.protocol?.isInitialized"
EngineReady == protocolSet /\ initialized

\* One operation called on the client: outcome is "not_connected" when
\* ensureConnected threw, "requested" when request() of the engine was
\* called (as its call number call), "cached" when the answer came from
\* cachedTools; done once the continuation after the request has run.
ClientOp(op, outcome, call) ==
  [op |-> op, outcome |-> outcome, call |-> call, done |-> outcome # "requested"]

\* connectWithTransport(transport): a new engine over the transport, then
\* initialize().  One connection is made per behaviour.
ConnectCall ==
  /\ ~EngineReady
  /\ ~protocolSet
  /\ discPc = "idle"
  /\ InitializeCall
  /\ protocolSet' = TRUE
  /\ UNCHANGED <<cachedTools, discPc, ops>>

\* ensureConnected() throws: the operation rejects with 'Client not
\* connected' and nothing reaches the engine.
NotConnected(op) ==
  /\ ops' = Append(ops, ClientOp(op, "not_connected", 0))
  /\ trace' = <<>>
  /\ UNCHANGED <<nextId, pending, timers, initialized, connected, procClosed,
                 sending, failing, sentMessages, calls, initPc, initCall,
                 shutPc, shutCall>>

\* ensureConnected() passes: the operation requests its method.
Requested(op) ==
  /\ Len(calls) < MaxReq
  /\ request(Method(op))
  /\ ops' = Append(ops, ClientOp(op, "requested", Len(calls) + 1))
  /\ trace' = <<Effect("set", nextId), Effect("send", nextId)>>
  /\ UNCHANGED <<initialized, connected, procClosed, initPc, initCall,
                 shutPc, shutCall>>

\* getTool with a tool list in the cache: "this.cachedTools?.find(...)".
FromCache(op) ==
  /\ ops' = Append(ops, ClientOp(op, "cached", 0))
  /\ trace' = <<>>
  /\ UNCHANGED <<nextId, pending, timers, initialized, connected, procClosed,
                 sending, failing, sentMessages, calls, initPc, initCall,
                 shutPc, shutCall>>

\* An operation is called on the client.  getTool calls listTools() only
\* when cachedTools is null; every other operation, listTools() included,
\* begins with ensureConnected().
ClientCall(op) ==
  /\ Len(ops) < MaxOps
  /\ IF op = "getTool" /\ cachedTools
     THEN FromCache(op)
     ELSE IF EngineReady THEN Requested(op) ELSE NotConnected(op)
  /\ UNCHANGED <<protocolSet, cachedTools, discPc>>

\* listTools() after "await this.protocol!.request(TOOLS_LIST)": a result
\* fills the cache, a rejection leaves listTools.
ListToolsResume(i) ==
  /\ i \in 1..Len(ops)
  /\ ~ops[i].done
  /\ Settled(ops[i].call)
  /\ ops' = [ops EXCEPT ![i].done = TRUE]
  /\ cachedTools' =
       IF /\ ops[i].op \in {"listTools", "getTool"}
          /\ calls[ops[i].call].outcome.kind = "result"
       THEN TRUE
       ELSE cachedTools
  /\ trace' = <<>>
  /\ UNCHANGED <<nextId, pending, timers, initialized, connected, procClosed,
                 sending, failing, sentMessages, calls, initPc, initCall,
                 shutPc, shutCall, protocolSet, discPc>>

\* disconnect(): protocol.shutdown() when there is an engine; a client that
\* was never connected has nothing to close.
DisconnectCall ==
  /\ discPc = "idle"
  /\ IF protocolSet
     THEN /\ ShutdownCall
          /\ discPc' = "awaitShutdown"
          /\ UNCHANGED <<protocolSet, cachedTools, ops>>
     ELSE /\ discPc' = "done"
          /\ protocolSet' = FALSE
          /\ cachedTools' = FALSE
          /\ trace' = <<>>
          /\ UNCHANGED <<nextId, pending, timers, initialized, connected,
                         procClosed, sending, failing, sentMessages, calls,
                         initPc, initCall, shutPc, shutCall, ops>>

\* disconnect() after "await this.protocol.shutdown()": transport.close()
\* marks the transport disconnected and waits for the child.
DisconnectClose ==
  /\ discPc = "awaitShutdown"
  /\ shutPc = "done"
  /\ discPc' = "awaitClose"
  /\ connected' = FALSE
  /\ trace' = <<>>
  /\ UNCHANGED <<nextId, pending, timers, initialized, procClosed, sending,
                 failing, sentMessages, calls, initPc, initCall, shutPc,
                 shutCall, protocolSet, cachedTools, ops>>

\* disconnect() after "await this.transport.close()": the references and the
\* cache are dropped.
DisconnectDone ==
  /\ discPc = "awaitClose"
  /\ discPc' = "done"
  /\ protocolSet' = FALSE
  /\ cachedTools' = FALSE
  /\ trace' = <<>>
  /\ UNCHANGED <<nextId, pending, timers, initialized, connected, procClosed,
                 sending, failing, sentMessages, calls, initPc, initCall,
                 shutPc, shutCall, ops>>

\* The callbacks of the engine and its transport.
EngineEvent ==
  \/ \E k \in 1..MaxReq : SendFail(k)
  \/ \E k \in 1..MaxReq : TimerFire(k)
  \/ \E msg \in Messages : HandleMessage(msg)
  \/ \E code \in Codes : TransportClose(code)
  \/ InitializeResume
  \/ \E ok \in BOOLEAN : NotifyDone(ok)
  \/ ShutdownResume

NextClient ==
  \/ ConnectCall
  \/ \E op \in ClientOps : ClientCall(op)
  \/ \E i \in 1..MaxOps : ListToolsResume(i)
  \/ DisconnectCall
  \/ DisconnectClose
  \/ DisconnectDone
  \/ EngineEvent /\ UNCHANGED cliVars

SpecClient ==
  InitEngine /\ [][NextClient /\ UNCHANGED <<mgrVars, rtrVars, trVars>>]_vars

\* ===================================================================== *
\* Properties of the client                                               *
\* ===================================================================== *

\* C17: an operation called while the engine is not initialized (never
\* connected, disconnected, or closed by the transport) fails at once with
\* the not-connected error, and no message is handed to the transport.
C17_NotConnectedFails ==
  [][\A op \in ClientOps :
       (ClientCall(op) /\ ~EngineReady) =>
         /\ ops'[Len(ops')].outcome = "not_connected"
         /\ UNCHANGED sentMessages]_vars

\* The client with one operation of each shape: callTool, whose body
\* (ensureConnected, then request) is that of listResources, readResource,
\* listPrompts and getPrompt but for the method, and listTools, which goes
\* on to fill the cache.
FacadeOps == {"callTool", "listTools"}

\* The callbacks of the engine and its transport, the child answering
\* requests and closing with code 0.
FacadeEvent ==
  \/ \E k \in 1..MaxReq : SendFail(k)
  \/ \E k \in 1..MaxReq : TimerFire(k)
  \/ \E id \in 1..MaxReq, e \in BOOLEAN :
       HandleMessage(Response(id, e, ServerPayload(id)))
  \/ TransportClose(0)
  \/ InitializeResume
  \/ \E ok \in BOOLEAN : NotifyDone(ok)
  \/ ShutdownResume

NextFacade ==
  \/ ConnectCall
  \/ \E op \in FacadeOps : ClientCall(op)
  \/ \E i \in 1..MaxOps : ListToolsResume(i)
  \/ DisconnectCall
  \/ DisconnectClose
  \/ DisconnectDone
  \/ FacadeEvent /\ UNCHANGED cliVars

SpecFacade ==
  InitEngine /\ [][NextFacade /\ UNCHANGED <<mgrVars, rtrVars, trVars>>]_vars

\* C32: in every reachable state of an engine driven through the client in
\* which the engine is not initialized, the pending table holds no request
\* other than the initialize request: no tools/list, tools/call,
\* resources/*, prompts/* or shutdown request is in flight.
C32_OnlyInitializeInFlight ==
  ~initialized =>
    \A i \in 1..Len(pending) :
      /\ pending[i].method = INITIALIZE
      /\ pending[i].call = initCall

\* An operation refused by the client while the initialize request of its
\* engine is in flight.
C32_Witness ==
  /\ ~initialized
  /\ \E i \in 1..Len(pending) : pending[i].method = INITIALIZE
  /\ \E i \in 1..Len(ops) : ops[i].outcome = "not_connected"

\* ===================================================================== *
\* Part IV: ToolRouter, PermissionGuard, AuditLog and the manifest cache  *
\* ===================================================================== *

\* Number of invoke() calls made on the router in one behaviour.
MaxInvokes == 1

\* ---- strings: a string is the sequence of its characters

\* Faulty variant: the index of the last ch.
indexOf_last(s, ch) ==
  IF \E i \in 1..Len(s) : s[i] = ch
  THEN (CHOOSE i \in 1..Len(s) :
          s[i] = ch /\ \A j \in (i + 1)..Len(s) : s[j] # ch) - 1
  ELSE -1

\* String.prototype.indexOf(ch): the 0-based index of the first ch, or -1.
indexOf(s, ch) ==
  IF \E i \in 1..Len(s) : s[i] = ch
  THEN (CHOOSE i \in 1..Len(s) :
          s[i] = ch /\ \A j \in 1..(i - 1) : s[j] # ch) - 1
  ELSE -1

\* String.prototype.slice(from, to) for 0 <= from, to <= length.
slice(s, from, to) == SubSeq(s, from + 1, to)

\* String.prototype.includes(sub)
includes(s, sub) ==
  \E i \in 0..(Len(s) - Len(sub)) : slice(s, i, i + Len(sub)) = sub

Uppers ==
  <<"A", "B", "C", "D", "E", "F", "G", "H", "I", "J", "K", "L", "M",
    "N", "O", "P", "Q", "R", "S", "T", "U", "V", "W", "X", "Y", "Z">>

Lowers ==
  <<"a", "b", "c", "d", "e", "f", "g", "h", "i", "j", "k", "l", "m",
    "n", "o", "p", "q", "r", "s", "t", "u", "v", "w", "x", "y", "z">>

\* String.prototype.toLowerCase()
toLowerCase(s) ==
  [i \in 1..Len(s) |->
     IF \E k \in 1..Len(Uppers) : Uppers[k] = s[i]
     THEN Lowers[CHOOSE k \in 1..Len(Uppers) : Uppers[k] = s[i]]
     ELSE s[i]]

\* The manager's key for the string s: the names of Names are one
\* character long, no other string is the name of a managed server.
ServerKey(s) == IF Len(s) = 1 THEN s[1] ELSE ""

\* ---- PermissionGuard

\* An optional list of scopes: NoScopes for undefined.
NoScopes == <<>>

Scopes(scopes) == <<scopes>>

\* ToolPermission
Permit(tool, allow, scopes) ==
  [tool |-> tool, allow |-> allow, scopes |-> scopes]

\* A ToolPermission without scopes.
Rule(tool, allow) == Permit(tool, allow, NoScopes)

RECURSIVE matchGlob(_, _)
\* matchGlob(pattern, value): the pattern as a regular expression in which
\* every * stands for .* and that must match the whole value.
matchGlob(pattern, value) ==
  IF pattern = <<>>
  THEN value = <<>>
  ELSE IF Head(pattern) = "*"
       THEN \E k \in 0..Len(value) :
              matchGlob(Tail(pattern), slice(value, k, Len(value)))
       ELSE /\ value # <<>>
            /\ Head(value) = Head(pattern)
            /\ matchGlob(Tail(pattern), Tail(value))

\* The first element of seq that satisfies Test, <<>> when there is none:
\* Array.prototype.find, with <<>> for undefined.
Find(seq, Test(_)) ==
  IF \E i \in 1..Len(seq) : Test(seq[i])
  THEN <<seq[CHOOSE i \in 1..Len(seq) :
               Test(seq[i]) /\ \A j \in 1..(i - 1) : ~Test(seq[j])]>>
  ELSE <<>>

\* Faulty variant: the first rule that matches in any of the three ways.
findMatchingRule_first(rs, toolName) ==
  Find(rs, LAMBDA r : \/ r.tool = toolName
                      \/ includes(r.tool, <<"*">>)
                           /\ matchGlob(r.tool, toolName))

\* findMatchingRule(toolName): exact match, then glob, then catch-all.
findMatchingRule(rs, toolName) ==
  LET exact == Find(rs, LAMBDA r : r.tool = toolName)
      glob == Find(rs, LAMBDA r : includes(r.tool, <<"*">>)
                                    /\ matchGlob(r.tool, toolName))
      all == Find(rs, LAMBDA r : r.tool = <<"*">>)
  IN IF exact # <<>> THEN exact ELSE IF glob # <<>> THEN glob ELSE all

\* PermissionCheckResult.  The reason is kept as its kind, the tool name it
\* quotes and, for missing scopes, the scopes it lists.
Permission(allowed, reason, tool) ==
  [allowed |-> allowed, reason |-> reason, tool |-> tool, missing |-> <<>>]

\* Faulty variant: the scopes of the rule are not looked at.
missingScopes_none(match, requiredScopes) == <<>>

\* "requiredScopes.filter((s) => !match.scopes!.includes(s))" under the
\* condition of the if around it, <<>> when the condition fails.
missingScopes(match, requiredScopes) ==
  IF /\ requiredScopes # NoScopes
     /\ Len(requiredScopes[1]) > 0
     /\ match.scopes # NoScopes
  THEN SelectSeq(requiredScopes[1],
                 LAMBDA s : \A j \in 1..Len(match.scopes[1]) :
                              match.scopes[1][j] # s)
  ELSE <<>>

\* Faulty variant: every tool is permitted.
Deny_permit(reason, toolName) == Permission(TRUE, "", <<>>)

Deny(reason, toolName) == Permission(FALSE, reason, toolName)

\* checkToolPermission(toolName, requiredScopes)
checkToolPermission(rs, toolName, requiredScopes) ==
  LET match == findMatchingRule(rs, toolName)
  IN IF rs = <<>>
     THEN Permission(TRUE, "", <<>>)
     ELSE IF match = <<>>
          THEN Deny("No permission rule matches tool", toolName)
          ELSE IF ~match[1].allow
               THEN Deny("Tool is explicitly denied", toolName)
               ELSE LET missing == missingScopes(match[1], requiredScopes)
                    IN IF Len(missing) > 0
                       THEN [Permission(FALSE, "Tool missing scopes",
                                        toolName)
                               EXCEPT !.missing = missing]
                       ELSE Permission(TRUE, "", <<>>)

\* ---- ManifestManager

\* One server of manifest.servers with its cached tools, by name; tools is
\* <<>> also when the entry has no tools array.
ManifestEntry(id, tools) == [id |-> id, tools |-> tools]

\* A resolved target: the server and the tool name.
Target(server, toolName) == [server |-> server, toolName |-> toolName]

\* A canonical array index: the decimal digits of a number, without a
\* leading zero.
Digits == <<"0", "1", "2", "3", "4", "5", "6", "7", "8", "9">>

IsIndex(key) ==
  /\ key # <<>>
  /\ \A i \in 1..Len(key) : \E d \in 1..Len(Digits) : Digits[d] = key[i]
  /\ Len(key) > 1 => key[1] # "0"

RECURSIVE ToNumber(_)
ToNumber(key) ==
  IF key = <<>>
  THEN 0
  ELSE 10 * ToNumber(SubSeq(key, 1, Len(key) - 1))
         + (CHOOSE d \in 1..Len(Digits) : Digits[d] = key[Len(key)]) - 1

\* Faulty variant: the properties in the order they were created.
ownEntries_inserted(mf) == mf

\* Object.entries(servers): the properties whose key is an array index in
\* ascending numeric order, then the others in the order they were created.
ownEntries(mf) ==
  SortSeq(SelectSeq(mf, LAMBDA e : IsIndex(e.id)),
          LAMBDA x, y : ToNumber(x.id) < ToNumber(y.id))
    \o SelectSeq(mf, LAMBDA e : ~IsIndex(e.id))

\* findTool(qualifiedName): the server and the cached tool, <<>> for
\* undefined.
findTool(mf, qualifiedName) ==
  LET dotIndex == indexOf(qualifiedName, ".")
      serverName == slice(qualifiedName, 0, dotIndex)
      toolName == slice(qualifiedName, dotIndex + 1, Len(qualifiedName))
      Has(e, name) == \E i \in 1..Len(e.tools) : e.tools[i] = name
  IN IF dotIndex = -1
     THEN LET found == Find(ownEntries(mf),
                            LAMBDA e : Has(e, qualifiedName))
          IN IF found = <<>>
             THEN <<>>
             ELSE <<Target(found[1].id, qualifiedName)>>
     ELSE LET entry == Find(mf, LAMBDA e : e.id = serverName)
          IN IF entry # <<>> /\ Has(entry[1], toolName)
             THEN <<Target(serverName, toolName)>>
             ELSE <<>>

\* ---- AuditLog

REDACTED == <<"[", "R", "E", "D", "A", "C", "T", "E", "D", "]">>

SENSITIVE_KEYS ==
  << <<"p", "a", "s", "s", "w", "o", "r", "d">>,
     <<"s", "e", "c", "r", "e", "t">>,
     <<"t", "o", "k", "e", "n">>,
     <<"a", "p", "i", "_", "k", "e", "y">>,
     <<"a", "p", "i", "K", "e", "y">>,
     <<"a", "u", "t", "h", "o", "r", "i", "z", "a", "t", "i", "o", "n">> >>

\* An argument object: its entries in the order of Object.entries;
\* defined is FALSE for undefined.
Args(entries) == [defined |-> TRUE, entries |-> entries]

NoArgs == [defined |-> FALSE, entries |-> <<>>]

Arg(key, value) == [key |-> key, value |-> value]

\* redactSensitive(args)
redactSensitive(args) ==
  IF ~args.defined
  THEN NoArgs
  ELSE Args([i \in 1..Len(args.entries) |->
               LET key == args.entries[i].key
               IN IF \E k \in 1..Len(SENSITIVE_KEYS) :
                       includes(toLowerCase(key), SENSITIVE_KEYS[k])
                  THEN Arg(key, REDACTED)
                  ELSE args.entries[i]])

\* Array.prototype.slice(-n) for n >= 0: the relative start -n is -0, that
\* is 0, when n is 0, and is counted from the end otherwise.
sliceLast(seq, n) ==
  LET from == IF n = 0
              THEN 0
              ELSE IF Len(seq) - n < 0 THEN 0 ELSE Len(seq) - n
  IN SubSeq(seq, from + 1, Len(seq))

\* Faulty variant: the entry is pushed twice.
record_twice(log, entry) == Append(Append(log, entry), entry)

\* record(entry)
record(log, entry) ==
  LET pushed == Append(log, entry)
  IN IF Len(pushed) > capacity
     THEN sliceLast(pushed, capacity)
     ELSE pushed

\* AuditEntry without its timestamp.  Absent fields: arguments NoArgs,
\* result "", reason "", durationMs -1.  call is history: the invoke()
\* call that recorded the entry.
AuditEntry(call, server, tool, action) ==
  [call |-> call, server |-> server, tool |-> tool, action |-> action,
   arguments |-> NoArgs, result |-> "", reason |-> "", quoted |-> <<>>,
   durationMs |-> -1]

\* logInvocation(server, tool, args, result, durationMs)
invocationEntry(call, server, tool, args, result, durationMs) ==
  [AuditEntry(call, server, tool, "invoke") EXCEPT
     !.arguments = redactSensitive(args),
     !.result = result,
     !.durationMs = durationMs]

logInvocation(log, call, server, tool, args, result, durationMs) ==
  record(log, invocationEntry(call, server, tool, args, result, durationMs))

\* Faulty variant: the denial is not recorded.
logDenial_skip(log, call, server, tool, perm) == log

\* logDenial(server, tool, reason)
denialEntry(call, server, tool, perm) ==
  [AuditEntry(call, server, tool, "deny") EXCEPT
     !.reason = perm.reason, !.quoted = perm.tool]

logDenial(log, call, server, tool, perm) ==
  record(log, denialEntry(call, server, tool, perm))

\* recent(count) for count >= 0, forServer(server) and the count getter.
recent(count) == sliceLast(audit, count)

forServer(server) == SelectSeq(audit, LAMBDA e : e.server = server)

count == Len(audit)

\* ---- ToolRouter

\* The string of a managed server's name.
NameString(name) == <<name>>

\* resolveToolName(qualifiedName): the target, <<>> for null.
resolveToolName(qualifiedName) ==
  LET dotIndex == indexOf(qualifiedName, ".")
      found == findTool(manifest, qualifiedName)
      running == Find(servers,
                      LAMBDA e : managed[e.obj].state.status = "running")
  IN IF dotIndex # -1
     THEN <<Target(slice(qualifiedName, 0, dotIndex),
                   slice(qualifiedName, dotIndex + 1, Len(qualifiedName)))>>
     ELSE IF found # <<>>
          THEN found
          ELSE IF running # <<>>
               THEN <<Target(NameString(running[1].id), qualifiedName)>>
               ELSE <<>>

\* One invoke() call: what it was given, the target it resolved, what it
\* did in program order (steps), the client it obtained (0 for none), and
\* how it ended: outcome is "" while it awaits callTool, then "returned",
\* or the error it threw.  error is the error callTool threw, thrown is the
\* error invoke threw.
Invocation(qualifiedName, args) ==
  [name |-> qualifiedName, args |-> args, server |-> <<>>, tool |-> <<>>,
   steps |-> <<>>, client |-> 0, outcome |-> "", reason |-> "",
   quoted |-> <<>>, isError |-> FALSE, durationMs |-> -1, error |-> "",
   thrown |-> ""]

\* invoke() up to "await client.callTool(toolName, args)".
invoke(call, qualifiedName, args) ==
  LET resolved == resolveToolName(qualifiedName)
      inv == Invocation(qualifiedName, args)
  IN IF resolved = <<>>
     THEN [audit |-> audit,
           inv |-> [inv EXCEPT !.steps = <<"resolveToolName", "throw">>,
                               !.outcome = "Tool not found",
                               !.thrown = "Tool not found",
                               !.quoted = qualifiedName]]
     ELSE
       LET server == resolved[1].server
           toolName == resolved[1].toolName
           perm == checkToolPermission(rules, toolName, NoScopes)
           client == getClient(ServerKey(server))
           at == [inv EXCEPT !.server = server, !.tool = toolName]
       IN IF ~perm.allowed
          THEN [audit |-> logDenial(audit, call, server, toolName, perm),
                inv |-> [at EXCEPT
                           !.steps = <<"resolveToolName",
                                       "checkToolPermission", "logDenial",
                                       "throw">>,
                           !.outcome = "Permission denied",
                           !.thrown = "Permission denied",
                           !.reason = perm.reason,
                           !.quoted = perm.tool]]
          ELSE IF client = 0
               THEN [audit |-> audit,
                     inv |-> [at EXCEPT
                                !.steps = <<"resolveToolName",
                                            "checkToolPermission",
                                            "getClient", "throw">>,
                                !.outcome = "Server is not running",
                                !.thrown = "Server is not running",
                                !.quoted = server]]
               ELSE [audit |-> audit,
                     inv |-> [at EXCEPT
                                !.steps = <<"resolveToolName",
                                            "checkToolPermission",
                                            "getClient", "callTool">>,
                                !.client = client]]

\* Qualified names, argument objects, clock differences and outcomes of
\* callTool the environment uses.
QualifiedNames ==
  {<<"t">>, <<"u">>, <<"a", ".", "t">>, <<"b", ".", "t", ".", "v">>,
   <<"x", ".", "t">>}

ArgObjects ==
  {NoArgs,
   Args(<<Arg(<<"T", "o", "k", "e", "n">>, <<"s">>),
          Arg(<<"p", "a", "t", "h">>, <<"/">>)>>),
   Args(<<Arg(<<"a", "p", "i", "K", "e", "y">>, <<"s">>)>>)}

Durations == {0, 1}

\* callTool: a result, a result with isError, or an error thrown.
CallToolErrors == {"Request timeout", "Client is not connected"}

CallToolOutcomes == {"result", "isError"} \cup CallToolErrors

\* router.invoke(qualifiedName, args)
InvokeCall(qualifiedName, args) ==
  /\ Len(invokes) < MaxInvokes
  /\ LET r == invoke(Len(invokes) + 1, qualifiedName, args)
     IN /\ audit' = r.audit
        /\ invokes' = Append(invokes, r.inv)
  /\ UNCHANGED <<protoVars, mgrVars, cliVars, trVars,
                 manifestVars, guardVars,
                 capacity, recorded, queried, listings>>

\* invoke() after "await client.callTool(toolName, args)": the rest of the
\* try block when callTool returned, the catch block when it threw.
InvokeResume(i, how, durationMs) ==
  /\ i \in 1..Len(invokes)
  /\ invokes[i].outcome = ""
  /\ LET inv == invokes[i]
         result == IF how = "result" THEN "success" ELSE "failure"
     IN /\ audit' = logInvocation(audit, i, inv.server, inv.tool, inv.args,
                                  result, durationMs)
        /\ invokes' =
             [invokes EXCEPT ![i] =
                IF how \in CallToolErrors
                THEN [inv EXCEPT !.steps = @ \o <<"logInvocation", "throw">>,
                                 !.outcome = "rethrown",
                                 !.error = how,
                                 !.thrown = how,
                                 !.durationMs = durationMs]
                ELSE [inv EXCEPT !.steps = @ \o <<"logInvocation", "return">>,
                                 !.outcome = "returned",
                                 !.isError = (how = "isError"),
                                 !.durationMs = durationMs]]
  /\ UNCHANGED <<protoVars, mgrVars, cliVars, trVars,
                 manifestVars, guardVars,
                 capacity, recorded, queried, listings>>

\* Number of listAllTools() calls made on the router in one behaviour.
MaxListings == 1

\* Faulty variant: the tools are cached for a server not in the manifest
\* as well.
updateTools_upsert(mf, name, tools) ==
  [manifest |-> MapSet(mf, ManifestEntry(name, tools)), threw |-> FALSE]

\* manifest.updateTools(name, tools): the manifest it leaves and whether it
\* threw 'Server not in manifest'.
updateTools(mf, name, tools) ==
  IF MapHas(mf, name)
  THEN [manifest |-> MapSet(mf, ManifestEntry(name, tools)),
        threw |-> FALSE]
  ELSE [manifest |-> mf, threw |-> TRUE]

\* One listAllTools() call: the states list() returned, the place of the
\* loop in them, whether it awaits client.listTools() there, the result
\* so far, and as history what listTools came to for each server asked
\* (heard), the manifest the call found (before) and whether it returned.
Listing(snapshot) ==
  [snapshot |-> snapshot, at |-> 1, awaiting |-> FALSE, result |-> <<>>,
   heard |-> <<>>, before |-> manifest, done |-> FALSE]

\* The loop of listAllTools from its place to the next
\* "await client.listTools()" or to "return result".
RECURSIVE listAllTools(_)
listAllTools(l) ==
  IF l.at > Len(l.snapshot)
  THEN [l EXCEPT !.done = TRUE]
  ELSE IF l.snapshot[l.at].status # "running"
            \/ getClient(l.snapshot[l.at].name) = 0
       THEN listAllTools([l EXCEPT !.at = @ + 1])
       ELSE [l EXCEPT !.awaiting = TRUE]

\* The tool lists a server answers tools/list with.
ListedTools == {<<>>, << <<"t">> >>, << <<"u">>, <<"t">> >>}

\* router.listAllTools()
ListAllCall ==
  /\ Len(listings) < MaxListings
  /\ listings' =
       Append(listings,
              listAllTools(Listing(
                [i \in 1..Len(servers) |->
                   [name |-> servers[i].id, status |-> list[i].status]])))
  /\ UNCHANGED <<protoVars, mgrVars, cliVars, trVars, manifestVars,
                 guardVars, auditVars, invokes>>

\* listAllTools() after "await client.listTools()": the rest of the try
\* block when it returned tools, the empty catch block when it threw or
\* when updateTools throws, then the loop again.
ListAllResume(i, how, tools) ==
  /\ i \in 1..Len(listings)
  /\ listings[i].awaiting
  /\ how # "result" => tools = <<>>
  /\ LET l == listings[i]
         name == l.snapshot[l.at].name
         pushed == l.result \o
                     [j \in 1..Len(tools) |->
                        [server |-> name, tool |-> tools[j]]]
         updated == updateTools(manifest, NameString(name), tools)
     IN /\ manifest' = IF how = "result" THEN updated.manifest ELSE manifest
        /\ listings' =
             [listings EXCEPT ![i] =
                listAllTools(
                  [l EXCEPT
                     !.at = @ + 1,
                     !.awaiting = FALSE,
                     !.result = IF how = "result" THEN pushed ELSE @,
                     !.heard = Append(@, [server |-> name, how |-> how,
                                          tools |-> tools])])]
  /\ UNCHANGED <<protoVars, mgrVars, cliVars, trVars, file, returned,
                 guardVars, auditVars, invokes>>

\* ---- the router over a fleet

\* A managed server as start() leaves it when it succeeds, or as startAll
\* registers it for autoStart === false.
FleetServer(name, status) ==
  IF status = "running"
  THEN [config |-> Config(name, TRUE),
        state |-> [NewState("running") EXCEPT !.capabilities = TRUE,
                                               !.startedAt = TRUE,
                                               !.toolCount = ServerToolCount],
        client |-> [NewClient EXCEPT !.protocol = TRUE,
                                     !.transport = TRUE,
                                     !.serverCapabilities = TRUE,
                                     !.initialized = TRUE,
                                     !.isConnected = TRUE,
                                     !.process = "alive"]]
  ELSE ManagedServer(Config(name, FALSE), "stopped")

\* The fleets, manifests and rule lists the router is constructed over.
Fleets ==
  {<<>>,
   <<FleetServer("a", "running")>>,
   <<FleetServer("a", "stopped"), FleetServer("b", "running")>>,
   <<FleetServer("b", "running"), FleetServer("a", "running")>>}

Manifests ==
  {<<>>,
   <<ManifestEntry(<<"a">>, <<>>), ManifestEntry(<<"b">>, << <<"t">> >>)>>,
   <<ManifestEntry(<<"b">>, << <<"u">>, <<"t">> >>),
     ManifestEntry(<<"a">>, << <<"t">> >>)>>}

RuleLists ==
  {<<>>,
   <<Rule(<<"t">>, TRUE)>>,
   <<Rule(<<"t">>, FALSE), Rule(<<"*">>, TRUE)>>,
   <<Rule(<<"t", "*">>, TRUE)>>}

InitRouter ==
  /\ InitProtocol
  /\ InitNoClient
  /\ InitNoTransport
  /\ \E fleet \in Fleets :
       /\ servers = [i \in 1..Len(fleet) |->
                       [id |-> fleet[i].config.name, obj |-> i]]
       /\ managed = fleet
  /\ threads = {}
  /\ ncalls = 0
  /\ mtrace = <<>>
  /\ stopped = {}
  /\ orphans = {}
  /\ manifest \in Manifests
  /\ file = File("missing", <<>>)
  /\ returned = <<>>
  /\ rules \in RuleLists
  /\ checked = <<>>
  /\ capacity = maxEntries
  /\ audit = <<>>
  /\ recorded = <<>>
  /\ queried = <<>>
  /\ invokes = <<>>
  /\ listings = <<>>

NextRouter ==
  \/ \E qualifiedName \in QualifiedNames, args \in ArgObjects :
       InvokeCall(qualifiedName, args)
  \/ \E i \in 1..MaxInvokes, how \in CallToolOutcomes,
        durationMs \in Durations :
       InvokeResume(i, how, durationMs)

SpecRouter == InitRouter /\ [][NextRouter]_vars

\* The router listing the tools of its fleet.
NextListing ==
  \/ ListAllCall
  \/ \E i \in 1..MaxListings, how \in {"result"} \cup CallToolErrors,
        tools \in ListedTools :
       ListAllResume(i, how, tools)

SpecListing == InitRouter /\ [][NextListing]_vars

\* ===================================================================== *
\* Properties of the tool router                                         *
\* ===================================================================== *

\* The positions of the audit log whose entry was recorded by call i.
EntriesOf(i) == {k \in 1..Len(audit) : audit[k].call = i}

\* The position of step in the steps of inv, 0 when it did not happen.
StepAt(inv, step) ==
  IF \E k \in 1..Len(inv.steps) : inv.steps[k] = step
  THEN CHOOSE k \in 1..Len(inv.steps) : inv.steps[k] = step
  ELSE 0

\* The call resolved a target and the guard denies the tool of the target.
Denied(inv) ==
  /\ inv.outcome # "Tool not found"
  /\ ~checkToolPermission(rules, inv.tool, NoScopes).allowed

\* C18: when the guard denies the resolved tool, invoke records exactly one
\* audit entry, with action 'deny', the resolved server, the tool name and
\* the guard's reason, before it raises the error; it fails with
\* 'Permission denied: <reason>'; and it neither obtains the client of the
\* server nor calls callTool, so that no tools/call request is sent.
C18_DenialAudited ==
  \A i \in 1..Len(invokes) :
    LET inv == invokes[i]
        perm == checkToolPermission(rules, inv.tool, NoScopes)
    IN Denied(inv) =>
         /\ Cardinality(EntriesOf(i)) = 1
         /\ \A k \in EntriesOf(i) :
              /\ audit[k].action = "deny"
              /\ audit[k].server = inv.server
              /\ audit[k].tool = inv.tool
              /\ audit[k].reason = perm.reason
              /\ audit[k].quoted = inv.tool
         /\ StepAt(inv, "logDenial") > 0
         /\ StepAt(inv, "logDenial") < StepAt(inv, "throw")
         /\ inv.thrown = "Permission denied"
         /\ inv.reason = perm.reason
         /\ inv.quoted = inv.tool
         /\ inv.client = 0
         /\ StepAt(inv, "getClient") = 0
         /\ StepAt(inv, "callTool") = 0

\* A denied call whose server is running: the manager would have handed
\* out its client.
C18_Witness ==
  \E i \in 1..Len(invokes) :
    /\ Denied(invokes[i])
    /\ getClient(ServerKey(invokes[i].server)) # 0
    /\ invokes[i].thrown = "Permission denied"
    /\ EntriesOf(i) # {}

\* The call was dispatched: it got as far as client.callTool.
Dispatched(inv) == StepAt(inv, "callTool") > 0

\* The words that make an argument key sensitive, in lower case.
SensitiveWords ==
  { <<"p", "a", "s", "s", "w", "o", "r", "d">>,
    <<"s", "e", "c", "r", "e", "t">>,
    <<"t", "o", "k", "e", "n">>,
    <<"a", "p", "i", "_", "k", "e", "y">>,
    <<"a", "p", "i", "k", "e", "y">>,
    <<"a", "u", "t", "h", "o", "r", "i", "z", "a", "t", "i", "o", "n">> }

\* Entry e carries the arguments args with every top-level key whose lower
\* case form contains one of words redacted and every other key as it was.
RedactedFor(e, args, words) ==
  /\ e.arguments.defined = args.defined
  /\ Len(e.arguments.entries) = Len(args.entries)
  /\ \A j \in 1..Len(args.entries) :
       LET given == args.entries[j]
           kept == e.arguments.entries[j]
       IN /\ kept.key = given.key
          /\ kept.value =
               IF \E word \in words :
                    includes(toLowerCase(given.key), word)
               THEN REDACTED
               ELSE given.value

CarriesRedacted(e, args) == RedactedFor(e, args, SensitiveWords)

\* Entry e is the entry of the dispatched call inv that has ended: action
\* 'invoke', the resolved server and tool, a duration, and the result
\* that goes with how callTool ended.
EntryOfOutcome(e, inv) ==
  /\ e.action = "invoke"
  /\ e.server = inv.server
  /\ e.tool = inv.tool
  /\ e.durationMs >= 0
  /\ e.durationMs = inv.durationMs
  /\ e.result = IF inv.outcome = "returned" /\ ~inv.isError
                THEN "success"
                ELSE "failure"
  /\ inv.outcome = "rethrown" =>
       /\ inv.thrown = inv.error
       /\ StepAt(inv, "logInvocation") < StepAt(inv, "throw")

\* Every dispatched call has no entry while it awaits callTool and exactly
\* one, that of its outcome, once it has ended.
C19_OutcomeAudited ==
  \A i \in 1..Len(invokes) :
    LET inv == invokes[i]
    IN Dispatched(inv) =>
         IF inv.outcome = ""
         THEN EntriesOf(i) = {}
         ELSE /\ Cardinality(EntriesOf(i)) = 1
              /\ \A k \in EntriesOf(i) : EntryOfOutcome(audit[k], inv)

\* C19: every invoke call that reaches client.callTool records exactly one
\* audit entry with action 'invoke' for the resolved server and tool,
\* carrying durationMs and the redacted arguments, with result 'success'
\* when callTool returns a result whose isError is not true and 'failure'
\* when isError is true or callTool throws; in the throwing case the error
\* of callTool is re-thrown after the entry is recorded.
C19_InvokeAudited ==
  /\ C19_OutcomeAudited
  /\ \A i \in 1..Len(invokes) :
       \A k \in EntriesOf(i) :
         Dispatched(invokes[i]) => CarriesRedacted(audit[k], invokes[i].args)

\* The 1-based positions of the dots of a name.
Dots(name) == {k \in 1..Len(name) : name[k] = "."}

\* The positions of the manifest's servers that have the tool cached, and
\* the positions of the manager's running servers.
Caching(tool) ==
  {m \in 1..Len(manifest) :
     \E j \in 1..Len(manifest[m].tools) : manifest[m].tools[j] = tool}

RunningAt == {m \in 1..Len(servers) : list[m].status = "running"}

Least(S) == CHOOSE k \in S : \A j \in S : k <= j

\* C20: a name that contains '.' is split at its first '.' into server and
\* tool, whether or not that server exists; any other name goes to the
\* first server of the manifest that has a tool of that name cached;
\* failing that, to the first running server in the manager's order; and
\* the call fails with 'tool not found' only when none of these yields a
\* target.
C20_ResolutionOrder ==
  \A i \in 1..Len(invokes) :
    LET inv == invokes[i]
        name == inv.name
        found == inv.outcome # "Tool not found"
    IN IF Dots(name) # {}
       THEN /\ found
            /\ inv.server = SubSeq(name, 1, Least(Dots(name)) - 1)
            /\ inv.tool = SubSeq(name, Least(Dots(name)) + 1, Len(name))
       ELSE IF Caching(name) # {}
            THEN /\ found
                 /\ inv.server = manifest[Least(Caching(name))].id
                 /\ inv.tool = name
            ELSE IF RunningAt # {}
                 THEN /\ found
                      /\ inv.server = <<servers[Least(RunningAt)].id>>
                      /\ inv.tool = name
                 ELSE /\ inv.outcome = "Tool not found"
                      /\ inv.thrown = "Tool not found"
                      /\ inv.steps = <<"resolveToolName", "throw">>

\* A name without a dot that no server of a non-empty manifest has cached,
\* dispatched to the running server that follows a stopped one in the
\* manager's order.
C20_Witness ==
  \E i \in 1..Len(invokes) :
    /\ Dots(invokes[i].name) = {}
    /\ manifest # <<>>
    /\ Caching(invokes[i].name) = {}
    /\ RunningAt # {}
    /\ Least(RunningAt) > 1
    /\ Dispatched(invokes[i])
    /\ invokes[i].server = <<servers[Least(RunningAt)].id>>

\* The tools of the manifest mf cached for the server named name: <<>>
\* when it has no entry or no tools.
CachedTools(mf, name) ==
  IF MapHas(mf, name) THEN MapGet(mf, name).tools ELSE <<>>

\* The tools the result of listing l holds for server name, in order.
ResultFor(l, name) ==
  LET tagged == SelectSeq(l.result, LAMBDA e : e.server = name)
  IN [j \in 1..Len(tagged) |-> tagged[j].tool]

\* What listing l, once it has returned, did for the server of h, one of
\* the answers it heard.
Listed(l, h) ==
  IF h.how = "result"
  THEN /\ ResultFor(l, h.server) = h.tools
       /\ MapHas(manifest, NameString(h.server))
       /\ CachedTools(manifest, NameString(h.server)) = h.tools
  ELSE /\ ResultFor(l, h.server) = <<>>
       /\ MapHas(manifest, NameString(h.server))
            = MapHas(l.before, NameString(h.server))
       /\ CachedTools(manifest, NameString(h.server))
            = CachedTools(l.before, NameString(h.server))

\* C36: after listAllTools() resolves, for every running server whose
\* tools/list call succeeded the result holds its tools tagged with its
\* name and the manifest cache holds the same tool list for it; for every
\* server whose listing failed the result holds none of its tools and its
\* cached tools are as they were.
C36_ListAllTools ==
  \A i \in 1..Len(listings) :
    listings[i].done =>
      \A k \in 1..Len(listings[i].heard) :
        Listed(listings[i], listings[i].heard[k])

\* The same for the servers that have an entry in the manifest.
C36_ServersInManifest ==
  \A i \in 1..Len(listings) :
    listings[i].done =>
      \A k \in 1..Len(listings[i].heard) :
        MapHas(listings[i].before,
               NameString(listings[i].heard[k].server))
          => Listed(listings[i], listings[i].heard[k])

\* A running server without an entry in the manifest whose tools are in
\* the result and not in the cache.
C36_ListedNotCached ==
  \E i \in 1..Len(listings) :
    /\ listings[i].done
    /\ \E k \in 1..Len(listings[i].heard) :
         LET h == listings[i].heard[k]
         IN /\ h.how = "result"
            /\ h.tools # <<>>
            /\ ResultFor(listings[i], h.server) = h.tools
            /\ ~MapHas(manifest, NameString(h.server))

\* C40: invoke appends at most one audit entry per call and none when the
\* call fails with 'tool not found' or 'server not running': a call has an
\* entry only when the guard denied it or it was dispatched to callTool,
\* and the log holds nothing but the entries of the calls.
C40_AtMostOneEntry ==
  /\ \A i \in 1..Len(invokes) :
       /\ Cardinality(EntriesOf(i)) <= 1
       /\ invokes[i].thrown \in {"Tool not found", "Server is not running"}
            => EntriesOf(i) = {}
       /\ EntriesOf(i) # {} =>
            Denied(invokes[i]) \/ Dispatched(invokes[i])
  /\ \A k \in 1..Len(audit) : audit[k].call \in 1..Len(invokes)
  /\ Len(audit) <= Len(invokes)

\* A call the guard permits for a server that is not running: it fails
\* after the permission check and leaves the log empty.
C40_Witness ==
  \E i \in 1..Len(invokes) :
    /\ invokes[i].thrown = "Server is not running"
    /\ StepAt(invokes[i], "checkToolPermission") > 0
    /\ EntriesOf(i) = {}
    /\ audit = <<>>

\* ===================================================================== *
\* Part V: the audit log, the permission guard and the manifest manager   *
\*         on their own                                                   *
\* ===================================================================== *

\* Largest capacity an audit log is constructed with, and the number of
\* calls that record an entry in one behaviour.
MaxCapacity == 2

MaxRecords == 3

\* A call made on the log: the operation, the argument object of the
\* caller after the call, and the entry the call handed to record().
Recorded(op, args, entry) == [op |-> op, args |-> args, entry |-> entry]

\* The argument objects logInvocation is called with.
LoggedArgs ==
  ArgObjects \cup
    {Args(<<Arg(<<"a", "p", "i", "_", "k", "e", "y">>, <<"s">>),
            Arg(<<"d", "a", "t", "a">>, <<"v">>)>>)}

\* record(entry), with an entry of action 'error'.
RecordCall(server) ==
  /\ Len(recorded) < MaxRecords
  /\ LET entry == AuditEntry(Len(recorded) + 1, server, <<"t">>, "error")
     IN /\ audit' = record(audit, entry)
        /\ recorded' = Append(recorded, Recorded("record", NoArgs, entry))
  /\ queried' = <<>>
  /\ UNCHANGED <<protoVars, mgrVars, cliVars, trVars,
                 manifestVars, guardVars,
                 capacity, invokes, listings>>

\* logInvocation(server, tool, args, result, durationMs)
LogInvocationCall(server, args, result) ==
  /\ Len(recorded) < MaxRecords
  /\ LET call == Len(recorded) + 1
     IN /\ audit' = logInvocation(audit, call, server, <<"t">>, args,
                                  result, 0)
        /\ recorded' =
             Append(recorded,
                    Recorded("logInvocation", args,
                             invocationEntry(call, server, <<"t">>, args,
                                             result, 0)))
  /\ queried' = <<>>
  /\ UNCHANGED <<protoVars, mgrVars, cliVars, trVars,
                 manifestVars, guardVars,
                 capacity, invokes, listings>>

\* logDenial(server, tool, reason)
LogDenialCall(server) ==
  /\ Len(recorded) < MaxRecords
  /\ LET call == Len(recorded) + 1
         perm == Permission(FALSE, "Tool is explicitly denied", <<"t">>)
     IN /\ audit' = logDenial(audit, call, server, <<"t">>, perm)
        /\ recorded' =
             Append(recorded,
                    Recorded("logDenial", NoArgs,
                             denialEntry(call, server, <<"t">>, perm)))
  /\ queried' = <<>>
  /\ UNCHANGED <<protoVars, mgrVars, cliVars, trVars,
                 manifestVars, guardVars,
                 capacity, invokes, listings>>

\* A query made on the log: the operation, its argument, the entries it
\* returned and the log as the call found it.
Queried(op, arg, result, before) ==
  [op |-> op, arg |-> arg, result |-> result, before |-> before]

\* recent(n)
RecentCall(n) ==
  /\ queried' = <<Queried("recent", n, recent(n), audit)>>
  /\ UNCHANGED <<protoVars, mgrVars, cliVars, trVars,
                 manifestVars, guardVars,
                 capacity, audit, recorded, invokes, listings>>

\* forServer(server)
ForServerCall(server) ==
  /\ queried' = <<Queried("forServer", server, forServer(server), audit)>>
  /\ UNCHANGED <<protoVars, mgrVars, cliVars, trVars,
                 manifestVars, guardVars,
                 capacity, audit, recorded, invokes, listings>>

\* new AuditLog(maxEntries) for a capacity of 0 .. MaxCapacity.
InitAudit ==
  /\ InitProtocol
  /\ InitNoManager
  /\ InitNoClient
  /\ InitNoTransport
  /\ manifest = <<>>
  /\ file = File("missing", <<>>)
  /\ returned = <<>>
  /\ rules = <<>>
  /\ checked = <<>>
  /\ capacity \in 0..MaxCapacity
  /\ audit = <<>>
  /\ recorded = <<>>
  /\ queried = <<>>
  /\ invokes = <<>>
  /\ listings = <<>>

NextAudit ==
  \/ \E server \in {<<"a">>, <<"b">>} : RecordCall(server)
  \/ \E server \in {<<"a">>, <<"b">>}, args \in LoggedArgs,
        result \in {"success", "failure"} :
       /\ result = "failure" => args = NoArgs
       /\ LogInvocationCall(server, args, result)
  \/ \E server \in {<<"a">>, <<"b">>} : LogDenialCall(server)

SpecAudit == InitAudit /\ [][NextAudit]_vars

\* The log with its queries; what the entries carry beyond their server
\* does not bear on them.
NextQueries ==
  \/ \E server \in {<<"a">>, <<"b">>} : RecordCall(server)
  \/ \E server \in {<<"a">>, <<"b">>} :
       LogInvocationCall(server, NoArgs, "success")
  \/ \E server \in {<<"a">>, <<"b">>} : LogDenialCall(server)
  \/ \E n \in 0..(MaxCapacity + 1) : RecentCall(n)
  \/ \E server \in {<<"a">>, <<"b">>, <<"c">>} : ForServerCall(server)

SpecQueries == InitAudit /\ [][NextQueries]_vars

\* ---- properties of the audit log

\* The log holds at most its capacity and, once as many entries as its
\* capacity have been recorded, exactly the last capacity entries recorded,
\* oldest first.
Bounded ==
  /\ count <= capacity
  /\ Len(recorded) >= capacity =>
       /\ count = capacity
       /\ recent(capacity) =
            [j \in 1..capacity |->
               recorded[Len(recorded) - capacity + j].entry]

\* C21: for every capacity N >= 0 and every sequence of record,
\* logInvocation and logDenial calls, count never exceeds N; after k >= N
\* records count is N and recent(N) is records k-N+1 .. k in insertion
\* order.
C21_NeverExceedsCapacity == Bounded

\* The same for the capacities of at least 1.
C21_PositiveCapacity == capacity >= 1 => Bounded

\* The logInvocation calls made with an argument mapping.
WithMapping ==
  {k \in 1..Len(recorded) :
     recorded[k].op = "logInvocation" /\ recorded[k].args.defined}

\* C22: for every logInvocation call with an argument mapping, each
\* top-level key whose lower case form contains 'password', 'secret',
\* 'token', 'api_key', 'apikey' or 'authorization' is in the recorded entry
\* with the value '[REDACTED]' and every other key keeps its value; the
\* mapping of the caller is as it was (redactSensitive builds a new object
\* and assigns to nothing else).
C22_SensitiveKeysRedacted ==
  \A k \in WithMapping :
    /\ CarriesRedacted(recorded[k].entry, recorded[k].args)
    /\ \A j \in 1..Len(audit) :
         audit[j].call = k => audit[j] = recorded[k].entry

\* The same without the word 'apikey'.
C22_OtherKeysRedacted ==
  \A k \in WithMapping :
    RedactedFor(recorded[k].entry, recorded[k].args,
                SensitiveWords \ {<<"a", "p", "i", "k", "e", "y">>})

\* The smaller of two numbers.
Min(a, b) == IF a < b THEN a ELSE b

\* forServer(name) returned exactly the entries of name, in insertion
\* order, and the log is as the query found it.
ForServerExact(q) ==
  q.op = "forServer" =>
    /\ q.result = SelectSeq(q.before, LAMBDA e : e.server = q.arg)
    /\ audit = q.before

\* C37: for every count >= 0 and every log state, recent(count) returns
\* the last min(count, size) entries in insertion order, so that recent(0)
\* returns no entries; forServer(name) returns exactly the entries whose
\* server is name, in insertion order; neither query changes the log.
C37_Queries ==
  \A i \in 1..Len(queried) :
    LET q == queried[i]
        n == Min(q.arg, Len(q.before))
    IN /\ q.op = "recent" =>
            /\ q.result = SubSeq(q.before, Len(q.before) - n + 1,
                                 Len(q.before))
            /\ audit = q.before
       /\ ForServerExact(q)

\* The same for the counts of at least 1.
C37_PositiveCount ==
  \A i \in 1..Len(queried) :
    LET q == queried[i]
        n == Min(q.arg, Len(q.before))
    IN /\ q.op = "recent" /\ q.arg >= 1 =>
            /\ q.result = SubSeq(q.before, Len(q.before) - n + 1,
                                 Len(q.before))
            /\ audit = q.before
       /\ ForServerExact(q)

\* recent(0) on a log that holds entries returns all of them.
C37_RecentZeroReturnsAll ==
  \E i \in 1..Len(queried) :
    /\ queried[i].op = "recent"
    /\ queried[i].arg = 0
    /\ queried[i].before # <<>>
    /\ queried[i].result = queried[i].before

\* ---- the permission guard on its own

\* Longest rule list loaded into the guard.
MaxRules == 2

\* The rules, tool names and required scopes the environment uses.
Permits ==
  {Permit(tool, TRUE, scopes) :
     tool \in {<<"t">>, <<"t", "*">>, <<"*">>},
     scopes \in {NoScopes, Scopes(<<>>), Scopes(<<"read">>)}}
    \cup {Rule(tool, FALSE) : tool \in {<<"t">>, <<"t", "*">>, <<"*">>}}

RECURSIVE ListsOf(_, _)
\* The sequences over S of length at most n.
ListsOf(S, n) ==
  IF n = 0
  THEN {<<>>}
  ELSE LET shorter == ListsOf(S, n - 1)
       IN shorter \cup {Append(l, x) : l \in shorter, x \in S}

ToolNames == {<<"t">>, <<"t", "u">>, <<"u">>}

RequiredScopes ==
  {NoScopes, Scopes(<<>>), Scopes(<<"read">>), Scopes(<<"read", "write">>)}

\* One checkToolPermission call with its result.
Checked(toolName, requiredScopes, result) ==
  [tool |-> toolName, required |-> requiredScopes, result |-> result]

\* loadRules(permissions), on a guard that has no rules yet: the rules it
\* leaves do not depend on the rules it replaces.
LoadRules(permissions) ==
  /\ rules = <<>>
  /\ rules' = permissions
  /\ checked' = <<>>
  /\ UNCHANGED <<protoVars, mgrVars, cliVars, trVars,
                 manifestVars, auditVars,
                 invokes, listings>>

\* checkToolPermission(toolName, requiredScopes)
CheckCall(toolName, requiredScopes) ==
  /\ checked' =
       <<Checked(toolName, requiredScopes,
                 checkToolPermission(rules, toolName, requiredScopes))>>
  /\ UNCHANGED <<protoVars, mgrVars, cliVars, trVars,
                 manifestVars, auditVars,
                 invokes, listings, rules>>

\* new PermissionGuard()
InitGuard == InitEngine

NextGuard ==
  \/ \E permissions \in ListsOf(Permits, MaxRules) : LoadRules(permissions)
  \/ \E toolName \in ToolNames, requiredScopes \in RequiredScopes :
       CheckCall(toolName, requiredScopes)

SpecGuard == InitGuard /\ [][NextGuard]_vars

\* ---- properties of the permission guard

\* The positions of the rules named exactly as the tool, of the rules with
\* a '*' that glob-match it, and of the rules '*'.
ExactRules(tool) == {i \in 1..Len(rules) : rules[i].tool = tool}

GlobRules(tool) ==
  {i \in 1..Len(rules) :
     /\ \E k \in 1..Len(rules[i].tool) : rules[i].tool[k] = "*"
     /\ matchGlob(rules[i].tool, tool)}

CatchAllRules == {i \in 1..Len(rules) : rules[i].tool = <<"*">>}

\* The position of the rule selected for the tool, if any: the first exact
\* rule, else the first glob rule, else the first rule '*'.
Selected(tool) ==
  IF ExactRules(tool) # {}
  THEN {Least(ExactRules(tool))}
  ELSE IF GlobRules(tool) # {}
       THEN {Least(GlobRules(tool))}
       ELSE IF CatchAllRules # {}
            THEN {Least(CatchAllRules)}
            ELSE {}

\* The required scopes that rule r does not grant, when scopes are
\* required and the rule has a scopes list.
Absent(r, required) ==
  IF required = NoScopes \/ r.scopes = NoScopes
  THEN <<>>
  ELSE SelectSeq(required[1],
                 LAMBDA x : ~\E j \in 1..Len(r.scopes[1]) :
                               r.scopes[1][j] = x)

C24_DefaultDeny ==
  \A i \in 1..Len(checked) :
    LET c == checked[i]
        matching == ExactRules(c.tool) \cup GlobRules(c.tool)
                      \cup CatchAllRules
    IN /\ rules = <<>> => c.result.allowed
       /\ rules # <<>> /\ matching = {} =>
            /\ ~c.result.allowed
            /\ c.result.reason = "No permission rule matches tool"
            /\ c.result.tool = c.tool
       /\ \A d \in Selected(c.tool) :
            ~rules[d].allow =>
              /\ ~c.result.allowed
              /\ c.result.reason = "Tool is explicitly denied"
              /\ c.result.tool = c.tool

\* A tool denied because none of the rules loaded matches it.
C24_Witness ==
  \E i \in 1..Len(checked) :
    /\ rules # <<>>
    /\ Selected(checked[i].tool) = {}
    /\ ~checked[i].result.allowed

\* C25: when the matched rule allows the tool, the check denies exactly
\* when requiredScopes is non-empty, the rule has a scopes list and a
\* required scope is absent from it, and the reason lists the absent
\* scopes; it permits when requiredScopes is absent or empty, when the rule
\* has no scopes list and when every required scope is in the list.
C25_RequiredScopes ==
  \A i \in 1..Len(checked) :
    LET c == checked[i]
    IN \A d \in Selected(c.tool) :
         rules[d].allow =>
           LET given == IF c.required = NoScopes THEN <<>> ELSE c.required[1]
               absent == {k \in 1..Len(given) :
                            \/ rules[d].scopes = NoScopes
                            \/ \A j \in 1..Len(rules[d].scopes[1]) :
                                 rules[d].scopes[1][j] # given[k]}
               denies == /\ Len(given) > 0
                         /\ rules[d].scopes # NoScopes
                         /\ absent # {}
           IN /\ c.result.allowed = ~denies
              /\ denies =>
                   /\ c.result.reason = "Tool missing scopes"
                   /\ c.result.tool = c.tool
                   /\ Len(c.result.missing) = Cardinality(absent)
                   /\ \A k \in 1..Len(given) :
                        k \in absent <=>
                          \E m \in 1..Len(c.result.missing) :
                            c.result.missing[m] = given[k]

\* An allowed tool denied for one of two required scopes.
C25_Witness ==
  \E i \in 1..Len(checked) :
    /\ \E d \in Selected(checked[i].tool) :
         rules[d].allow /\ rules[d].scopes = Scopes(<<"read">>)
    /\ checked[i].required = Scopes(<<"read", "write">>)
    /\ ~checked[i].result.allowed
    /\ checked[i].result.missing = <<"write">>

\* The glob rules narrower than '*' that match the tool.
NarrowRules(tool) == GlobRules(tool) \ CatchAllRules

\* The check c was decided by rule d.
DecidedBy(c, d) ==
  /\ c.result.allowed =
       (rules[d].allow /\ Absent(rules[d], c.required) = <<>>)
  /\ ~rules[d].allow => c.result.reason = "Tool is explicitly denied"

\* C38: when no exact rule matches and both the rule '*' and a narrower
\* glob rule match the tool, the narrower glob rule decides the check,
\* whatever the order in which the rules were registered.
C38_MostSpecific ==
  \A i \in 1..Len(checked) :
    LET c == checked[i]
    IN ExactRules(c.tool) = {} /\ NarrowRules(c.tool) # {}
         /\ CatchAllRules # {} =>
           DecidedBy(c, Least(NarrowRules(c.tool)))

\* The same when the narrower rule was registered before the rule '*'.
C38_NarrowRegisteredFirst ==
  \A i \in 1..Len(checked) :
    LET c == checked[i]
    IN ExactRules(c.tool) = {} /\ NarrowRules(c.tool) # {}
         /\ CatchAllRules # {}
         /\ Least(NarrowRules(c.tool)) < Least(CatchAllRules) =>
           DecidedBy(c, Least(NarrowRules(c.tool)))

\* A tool that a narrower glob rule allows, denied by a rule '*' that was
\* registered before it.
C38_CatchAllDecides ==
  \E i \in 1..Len(checked) :
    /\ ExactRules(checked[i].tool) = {}
    /\ \E n \in NarrowRules(checked[i].tool) :
         /\ rules[n].allow
         /\ rules[n].scopes = NoScopes
         /\ \E a \in CatchAllRules : a < n /\ ~rules[a].allow
    /\ ~checked[i].result.allowed

\* ---- the manifest manager on its own

\* The server names, tool lists, queries and files the environment uses.
ServerNames == {<<"b">>, <<"2">>, <<"1", "0">>}

ToolLists == {<< <<"t">> >>, << <<"u">>, <<"t", ".", "v">> >>}

Queries ==
  {<<"t">>, <<"u">>, <<"b", ".", "t">>, <<"2", ".", "t", ".", "v">>,
   <<"x", ".", "t">>}

Files ==
  {File("missing", <<>>), File("corrupt", <<>>),
   File("json", <<ManifestEntry(<<"b">>, << <<"t">> >>)>>)}

\* A call with what it returned; for load(), seen is the state of the file
\* it found and before the servers held in memory when it was called.
Returned(op, q, result, seen, before) ==
  [op |-> op, q |-> q, result |-> result, seen |-> seen, before |-> before]

\* "this.manifest.servers[config.name] = { config }"
AddServer(name) ==
  /\ manifest' =
       IF MapHas(manifest, name)
       THEN MapSet(manifest, ManifestEntry(name, <<>>))
       ELSE Append(manifest, ManifestEntry(name, <<>>))
  /\ returned' = <<>>
  /\ UNCHANGED <<protoVars, mgrVars, cliVars, trVars,
                 guardVars, auditVars, invokes, listings,
                 file>>

\* removeServer(name)
RemoveServer(name) ==
  /\ manifest' = MapDelete(manifest, name)
  /\ returned' = <<>>
  /\ UNCHANGED <<protoVars, mgrVars, cliVars, trVars,
                 guardVars, auditVars, invokes, listings,
                 file>>

\* updateTools(name, tools); it throws for a server not in the manifest.
UpdateTools(name, tools) ==
  /\ manifest' =
       IF MapHas(manifest, name)
       THEN MapSet(manifest, ManifestEntry(name, tools))
       ELSE manifest
  /\ returned' = <<>>
  /\ UNCHANGED <<protoVars, mgrVars, cliVars, trVars,
                 guardVars, auditVars, invokes, listings,
                 file>>

\* findTool(qualifiedName)
FindToolCall(q) ==
  /\ returned' =
       <<Returned("findTool", q, findTool(manifest, q), "", <<>>)>>
  /\ UNCHANGED <<protoVars, mgrVars, cliVars, trVars,
                 guardVars, auditVars, invokes, listings,
                 manifest, file>>

\* Faulty variant: a missing file is read as the empty manifest.
load_fresh(mf, f) == IF f.state = "json" THEN f.servers ELSE <<>>

\* load(): the servers of this.manifest after the call.  Nothing is
\* assigned when the file does not exist; JSON.parse throws on a corrupt
\* file and the catch block assigns the empty manifest.
load(mf, f) ==
  CASE f.state = "missing" -> mf
    [] f.state = "corrupt" -> <<>>
    [] f.state = "json" -> f.servers

\* load()
LoadCall ==
  /\ manifest' = load(manifest, file)
  /\ returned' =
       <<Returned("load", <<>>, manifest', file.state, manifest)>>
  /\ UNCHANGED <<protoVars, mgrVars, cliVars, trVars,
                 guardVars, auditVars, invokes, listings,
                 file>>

\* save(): JSON.stringify writes the servers in the order of their
\* properties.
SaveCall ==
  /\ file' = File("json", ownEntries(manifest))
  /\ returned' = <<>>
  /\ UNCHANGED <<protoVars, mgrVars, cliVars, trVars,
                 guardVars, auditVars, invokes, listings,
                 manifest>>

\* new ManifestManager(manifestPath), the file being in any state.
InitManifest ==
  /\ InitProtocol
  /\ InitNoManager
  /\ InitNoClient
  /\ InitNoTransport
  /\ manifest = <<>>
  /\ file \in Files
  /\ returned = <<>>
  /\ rules = <<>>
  /\ checked = <<>>
  /\ capacity = maxEntries
  /\ audit = <<>>
  /\ recorded = <<>>
  /\ queried = <<>>
  /\ invokes = <<>>
  /\ listings = <<>>

NextManifest ==
  \/ \E name \in ServerNames : AddServer(name)
  \/ \E name \in ServerNames : RemoveServer(name)
  \/ \E name \in ServerNames, tools \in ToolLists : UpdateTools(name, tools)
  \/ \E q \in Queries : FindToolCall(q)
  \/ LoadCall
  \/ SaveCall

SpecManifest == InitManifest /\ [][NextManifest]_vars

\* ---- properties of the manifest manager

\* The servers of the manifest, by position, that come first for a query
\* without a dot when the servers are taken in the order given.
FirstCaching(order, tool) ==
  {m \in 1..Len(order) :
     /\ \E j \in 1..Len(order[m].tools) : order[m].tools[j] = tool
     /\ \A n \in 1..(m - 1) :
          \A j \in 1..Len(order[n].tools) : order[n].tools[j] # tool}

\* What findTool(q) returned is what the claim C26 describes when the
\* servers without a dot in q are searched in the order given.
FindToolAnswers(r, order) ==
  LET q == r.q
      dot == IF Dots(q) = {} THEN 0 ELSE Least(Dots(q))
      before == SubSeq(q, 1, dot - 1)
      after == SubSeq(q, dot + 1, Len(q))
      known == {m \in 1..Len(manifest) : manifest[m].id = before}
  IN IF dot # 0
     THEN /\ r.result # <<>> =>
               r.result[1].server = before /\ r.result[1].toolName = after
          /\ known = {} => r.result = <<>>
          /\ \A m \in known :
               (\A j \in 1..Len(manifest[m].tools) :
                  manifest[m].tools[j] # after) => r.result = <<>>
     ELSE /\ FirstCaching(order, q) = {} => r.result = <<>>
          /\ \A m \in FirstCaching(order, q) :
               r.result = <<Target(order[m].id, q)>>

\* C26: for every manifest and query q with a '.', findTool(q) returns
\* undefined or the pair of the part of q before the first '.' and the part
\* after it, and undefined when that server is unknown, has no cached tools
\* or lacks the tool; for q without '.', it returns the first server in
\* insertion order that has a cached tool named q, with that name, or
\* undefined when no server has one.
C26_FindTool ==
  \A i \in 1..Len(returned) :
    returned[i].op = "findTool" => FindToolAnswers(returned[i], manifest)

\* The same with the servers in the order of Object.entries: those named
\* by an array index first, in ascending order.
C26_FindToolInKeyOrder ==
  \A i \in 1..Len(returned) :
    returned[i].op = "findTool" =>
      FindToolAnswers(returned[i], ownEntries(manifest))

\* C27: load() on a manager whose file is missing or is not valid JSON
\* yields the empty manifest, as the value returned and as the manifest in
\* memory, whatever servers were held in memory before.
C27_LoadYieldsEmpty ==
  \A i \in 1..Len(returned) :
    returned[i].op = "load" /\ returned[i].seen \in {"missing", "corrupt"} =>
      returned[i].result = <<>> /\ manifest = <<>>

\* The same for a file that is not valid JSON, and for a missing file on a
\* manager that holds no servers.
C27_CorruptYieldsEmpty ==
  \A i \in 1..Len(returned) :
    LET r == returned[i]
    IN /\ r.op = "load" /\ r.seen = "corrupt" =>
            r.result = <<>> /\ manifest = <<>>
       /\ r.op = "load" /\ r.seen = "missing" =>
            r.result = r.before /\ manifest = r.before

\* ======================================================================
\* Part VI: StdioTransport on its own (src/mcp/transport.ts)
\* ======================================================================

\* The number of start(), send() and close() calls made on one transport.
MaxTransportCalls == 3

\* A child process as the transport sees it: "spawning" from spawn() to its
\* first event, "alive" from its 'spawn' event, "errored" from its 'error'
\* event, "exited" from its 'close' event; whether stdin.end() was called;
\* and what it was sent, in order: "write", "EOF", "SIGTERM", "SIGKILL".
Child(state, stdinEnded, received) ==
  [state |-> state, stdinEnded |-> stdinEnded, received |-> received]

\* "this.process = spawn(this.options.command, ...)".
spawn == Child("spawning", FALSE, <<>>)

\* A ChildProcess that can be signalled: the one that has not failed to
\* spawn and has not exited.
hasHandle(ch) == ch.state \in {"spawning", "alive"}

\* A stream that takes every write, ended or not.
writable_always(chs, p) == p # 0

\* "this.process?.stdin?.writable": false without a process, after
\* stdin.end() and once the stream is destroyed with its child.
writable(chs, p) == p # 0 /\ hasHandle(chs[p]) /\ ~chs[p].stdinEnded

\* "stdin.write(payload, 'utf-8', ...)".
write(chs, p) == [chs EXCEPT ![p].received = Append(@, "write")]

\* "this.process.stdin?.end()".
end(chs, p) ==
  IF writable(chs, p)
  THEN [chs EXCEPT ![p].stdinEnded = TRUE, ![p].received = Append(@, "EOF")]
  ELSE [chs EXCEPT ![p].stdinEnded = TRUE]

\* "this.process.kill(signal)": nothing is sent to a child without a
\* handle.
kill(chs, p, signal) ==
  IF p # 0 /\ hasHandle(chs[p])
  THEN [chs EXCEPT ![p].received = Append(@, signal)]
  ELSE chs

\* What a call finds when it is made: the flag, whether a start() has
\* resolved, whether close() was called after the latest start(), and the
\* state of the child this.process refers to.
Seen ==
  [connected |-> isConnected,
   resolved |-> \E j \in 1..Len(tcalls) :
                  tcalls[j].op = "start" /\ tcalls[j].outcome = "resolved",
   closed |-> \E j \in 1..Len(tcalls) :
                /\ tcalls[j].op = "close"
                /\ \A i \in (j + 1)..Len(tcalls) : tcalls[i].op # "start",
   state |-> IF process = 0 THEN "none" ELSE children[process].state,
   stdinEnded |-> process # 0 /\ children[process].stdinEnded]

\* A call on the transport: the child it acts on (0 for none), its outcome
\* ("" while its promise is pending, "resolved", or the message of the
\* error it rejected with), and whether its timer is armed.
TransportCall(op, child, outcome, timer) ==
  [op |-> op, child |-> child, outcome |-> outcome, timer |-> timer,
   seen |-> Seen]

\* "const settle = (fn) => { if (!settled) { settled = true; fn(); } }",
\* after the clearTimeout(timer) of the listener that calls it.
settle(cs, k, outcome) ==
  [cs EXCEPT ![k].timer = FALSE,
             ![k].outcome = IF @ = "" THEN outcome ELSE @]

\* The start() call that spawned child c.
StartOf(c) ==
  CHOOSE k \in 1..Len(tcalls) : tcalls[k].op = "start" /\ tcalls[k].child = c

\* start(): throws while _isConnected, else spawns a child, makes it
\* this.process and waits for its first event or for the 2 s timer.
StartTransport ==
  /\ Len(tcalls) < MaxTransportCalls
  /\ IF isConnected
     THEN /\ tcalls' = Append(tcalls, TransportCall(
                 "start", 0, "Transport already started", FALSE))
          /\ UNCHANGED <<process, children>>
     ELSE /\ children' = Append(children, spawn)
          /\ process' = Len(children) + 1
          /\ tcalls' = Append(tcalls, TransportCall(
                 "start", Len(children) + 1, "", TRUE))
  /\ UNCHANGED <<protoVars, mgrVars, cliVars, rtrVars, frmVars, isConnected>>

\* The 'spawn' event of child c: "clearTimeout(timer); settle(() => {
\* this._isConnected = true; resolve(); })".
OnSpawn(c) ==
  /\ children[c].state = "spawning"
  /\ children' = [children EXCEPT ![c].state = "alive"]
  /\ isConnected' = IF tcalls[StartOf(c)].outcome = "" THEN TRUE
                    ELSE isConnected
  /\ tcalls' = settle(tcalls, StartOf(c), "resolved")
  /\ UNCHANGED <<protoVars, mgrVars, cliVars, rtrVars, frmVars, process>>

\* The 2 s timer of start call k, for a runtime without the 'spawn' event.
OnStartTimer(k) ==
  /\ tcalls[k].op = "start"
  /\ tcalls[k].timer
  /\ isConnected' = IF tcalls[k].outcome = "" THEN TRUE ELSE isConnected
  /\ tcalls' = settle(tcalls, k, "resolved")
  /\ UNCHANGED <<protoVars, mgrVars, cliVars, rtrVars, frmVars, process, children>>

\* The 'error' event of child c, which failed to spawn: the listener of
\* l.74 clears the flag, that of l.106 rejects the start.
OnError(c) ==
  /\ children[c].state = "spawning"
  /\ children' = [children EXCEPT ![c].state = "errored"]
  /\ isConnected' = FALSE
  /\ tcalls' = settle(tcalls, StartOf(c), "spawn error")
  /\ UNCHANGED <<protoVars, mgrVars, cliVars, rtrVars, frmVars, process>>

\* The 'close' event of child c: the listener of l.69 clears the flag, that
\* of l.111 rejects a start still pending, those of close() clear their
\* timers and resolve.
OnClose(c) ==
  /\ children[c].state # "exited"
  /\ children' = [children EXCEPT ![c].state = "exited"]
  /\ isConnected' = FALSE
  /\ tcalls' =
       [k \in 1..Len(tcalls) |->
          IF tcalls[k].child # c \/ tcalls[k].op = "send" THEN tcalls[k]
          ELSE IF tcalls[k].op = "start"
          THEN settle(tcalls, k, "Process exited immediately")[k]
          ELSE settle(tcalls, k, "resolved")[k]]
  /\ UNCHANGED <<protoVars, mgrVars, cliVars, rtrVars, frmVars, process>>

\* send(message): throws unless connected and writable, else writes the
\* payload to this.process and waits for the callback of the write.
SendMessage ==
  /\ Len(tcalls) < MaxTransportCalls
  /\ IF ~isConnected \/ ~writable(children, process)
     THEN /\ tcalls' = Append(tcalls, TransportCall(
                 "send", 0, "Transport not connected", FALSE))
          /\ UNCHANGED children
     ELSE /\ children' = write(children, process)
          /\ tcalls' = Append(tcalls, TransportCall(
                 "send", process, "", FALSE))
  /\ UNCHANGED <<protoVars, mgrVars, cliVars, rtrVars, frmVars, process, isConnected>>

\* The callback of the write of send call k: "if (err) reject(err); else
\* resolve()".
OnWritten(k, err) ==
  /\ tcalls[k].op = "send"
  /\ tcalls[k].outcome = ""
  /\ tcalls' = [tcalls EXCEPT ![k].outcome =
                  IF err THEN "write error" ELSE "resolved"]
  /\ UNCHANGED <<protoVars, mgrVars, cliVars, rtrVars, frmVars, process, isConnected,
                 children>>

\* close(): returns at once without a process, else clears the flag, arms
\* the 5 s timer, listens for 'close', ends stdin and sends SIGTERM.
CloseTransport ==
  /\ Len(tcalls) < MaxTransportCalls
  /\ IF process = 0
     THEN /\ tcalls' = Append(tcalls, TransportCall(
                 "close", 0, "resolved", FALSE))
          /\ UNCHANGED <<isConnected, children>>
     ELSE /\ isConnected' = FALSE
          /\ children' = kill(end(children, process), process, "SIGTERM")
          /\ tcalls' = Append(tcalls, TransportCall(
                 "close", process, "", TRUE))
  /\ UNCHANGED <<protoVars, mgrVars, cliVars, rtrVars, frmVars, process>>

\* The 5 s timer of close call k: "this.process?.kill('SIGKILL');
\* resolve()".
OnCloseTimer(k) ==
  /\ tcalls[k].op = "close"
  /\ tcalls[k].timer
  /\ children' = kill(children, process, "SIGKILL")
  /\ tcalls' = settle(tcalls, k, "resolved")
  /\ UNCHANGED <<protoVars, mgrVars, cliVars, rtrVars, frmVars, process, isConnected>>

InitTransport == InitEngine

NextTransport ==
  \/ StartTransport
  \/ SendMessage
  \/ CloseTransport
  \/ \E c \in 1..Len(children) : OnSpawn(c)
  \/ \E c \in 1..Len(children) : OnError(c)
  \/ \E c \in 1..Len(children) : OnClose(c)
  \/ \E k \in 1..Len(tcalls) : OnStartTimer(k)
  \/ \E k \in 1..Len(tcalls) : OnCloseTimer(k)
  \/ \E k \in 1..Len(tcalls), err \in BOOLEAN : OnWritten(k, err)

SpecTransport == InitTransport /\ [][NextTransport]_vars

\* ---- properties of the transport

\* The send() calls made so far.
Sends == {k \in 1..Len(tcalls) : tcalls[k].op = "send"}

\* The send() call k threw 'Transport not connected'.
Refused(k) == tcalls[k].outcome = "Transport not connected"

\* The number of payloads written to the children so far.
RECURSIVE Written(_, _)
Written(chs, c) ==
  IF c = 0 THEN 0
  ELSE Written(chs, c - 1)
         + Cardinality({i \in 1..Len(chs[c].received) :
                          chs[c].received[i] = "write"})

\* C28: send() succeeds only while the transport is connected: a send made
\* before any start() has resolved, after close() has been called (and
\* before a later start()), or after the child of the transport has exited
\* or errored, fails with 'Transport not connected'; and a send that fails
\* so writes nothing to any child.
C28_SendOnlyConnected ==
  /\ \A k \in Sends :
       \/ ~tcalls[k].seen.resolved
       \/ tcalls[k].seen.closed
       \/ tcalls[k].seen.state \in {"none", "exited", "errored"}
       => Refused(k) /\ tcalls[k].child = 0
  /\ Written(children, Len(children))
       = Cardinality({k \in Sends : ~Refused(k)})

\* A send() refused after close() although a late 'spawn' event or the 2 s
\* timer had set the flag again: the ended stdin alone refuses it.
C28_Witness ==
  \E k \in Sends :
    /\ Refused(k)
    /\ tcalls[k].seen.closed
    /\ tcalls[k].seen.connected
    /\ tcalls[k].seen.stdinEnded

\* The start() calls made so far.
Starts == {k \in 1..Len(tcalls) : tcalls[k].op = "start"}

\* C29: start() on a transport that was already started fails with
\* 'Transport already started' and spawns no second child, so that no more
\* than one child process is ever spawned.
C29_SecondStartFails ==
  /\ \A k \in Starts :
       (\E j \in Starts : j < k) =>
         /\ tcalls[k].outcome = "Transport already started"
         /\ tcalls[k].child = 0
  /\ Len(children) <= 1

\* What start() does guard: a start() made while _isConnected is set fails
\* with 'Transport already started' and spawns nothing, and every other
\* start() spawns a child of its own.
C29_StartWhileConnected ==
  /\ \A k \in Starts :
       IF tcalls[k].seen.connected
       THEN tcalls[k].outcome = "Transport already started"
              /\ tcalls[k].child = 0
       ELSE tcalls[k].outcome # "Transport already started"
              /\ tcalls[k].child \in 1..Len(children)
  /\ Len(children) = Cardinality({k \in Starts : ~tcalls[k].seen.connected})

\* Two children alive at once, the first out of the transport's reach.
C29_TwoChildren ==
  \E c, d \in 1..Len(children) :
    /\ c < d
    /\ children[c].state = "alive"
    /\ children[d].state = "alive"
    /\ process = d

\* The close() calls made so far.
Closes == {k \in 1..Len(tcalls) : tcalls[k].op = "close"}

\* Child c was sent the signal or EOF x before the i-th thing it was sent.
SentBefore(c, x, i) ==
  \E j \in 1..(i - 1) : children[c].received[j] = x

\* What close() sends to the children: EOF at most once and before every
\* SIGTERM, and SIGKILL only to a child that was sent EOF and SIGTERM.
GracefulFirst(cs) ==
  \A c \in cs :
    \A i \in 1..Len(children[c].received) :
      LET x == children[c].received[i]
      IN /\ x = "EOF" => ~SentBefore(c, "EOF", i)
         /\ x = "SIGTERM" => SentBefore(c, "EOF", i)
         /\ x = "SIGKILL" =>
              SentBefore(c, "EOF", i) /\ SentBefore(c, "SIGTERM", i)

\* What comes of the close() calls: none throws, one made on a transport
\* never started resolves at once and spawns or signals nothing, and one
\* made on a live child has sent it EOF and SIGTERM.
ClosesSettle ==
  \A k \in Closes :
    /\ tcalls[k].outcome \in {"", "resolved"}
    /\ tcalls[k].seen.state = "none" =>
         tcalls[k].outcome = "resolved" /\ tcalls[k].child = 0
    /\ tcalls[k].seen.state \in {"spawning", "alive"} =>
         /\ SentBefore(tcalls[k].child, "EOF",
                       Len(children[tcalls[k].child].received) + 1)
         /\ SentBefore(tcalls[k].child, "SIGTERM",
                       Len(children[tcalls[k].child].received) + 1)
    /\ tcalls[k].timer =>
         tcalls[k].outcome = ""
           /\ (tcalls[k].seen.state \in {"spawning", "alive"} =>
                 children[tcalls[k].child].state # "exited")

\* C30: close() never throws, on a transport never started, already closed
\* or with its child gone as on a live one; a live child is sent EOF and
\* SIGTERM first, and SIGKILL is sent only by the 5 s timer of a close()
\* whose child has not exited, to that child.
C30_CloseGraceful ==
  ClosesSettle /\ GracefulFirst(1..Len(children))

\* The same on a transport that spawned one child only.
C30_CloseOneChild ==
  ClosesSettle /\ (Len(children) <= 1 => GracefulFirst(1..Len(children)))

\* A child killed by the timer of its close() after EOF and SIGTERM.
C30_ForceKilled ==
  \E c \in 1..Len(children) :
    \E i \in 1..Len(children[c].received) :
      children[c].received[i] = "SIGKILL"

\* The timers of close() do fire.
FairTransport ==
  SpecTransport /\ WF_vars(\E k \in 1..Len(tcalls) : OnCloseTimer(k))

\* Every close() call resolves.
C30_CloseResolves ==
  \A k \in 1..MaxTransportCalls :
    (k \in Closes) ~> (k \in Closes /\ tcalls[k].outcome = "resolved")

\* ======================================================================
\* Part VII: the inbound framing of StdioTransport (handleData)
\* ======================================================================

\* The number of characters the child writes to its stdout.
MaxStream == 4

\* The characters of the child's output: a digit, the double quote, the
\* space, the line feed and one character of two UTF-8 bytes.
Chars == {"1", "\"", " ", "\n", "U+00E9"}

\* The replacement character a decoder puts for a malformed sequence.
Replacement == "U+FFFD"

\* The UTF-8 encoding of a character, what the child puts on the pipe.
Utf8(ch) ==
  CASE ch = "1" -> <<"31">>
    [] ch = "\"" -> <<"22">>
    [] ch = " " -> <<"20">>
    [] ch = "\n" -> <<"0A">>
    [] ch = "U+00E9" -> <<"C3", "A9">>

RECURSIVE Encode(_)
Encode(text) ==
  IF text = <<>> THEN <<>> ELSE Utf8(Head(text)) \o Encode(Tail(text))

\* The character of a one-byte sequence.
Ascii(byte) ==
  CASE byte = "31" -> "1"
    [] byte = "22" -> "\""
    [] byte = "20" -> " "
    [] byte = "0A" -> "\n"

RECURSIVE toString(_)
\* "chunk.toString('utf-8')": the chunk decoded on its own, a lead byte
\* without its continuation and a continuation without its lead each
\* becoming the replacement character.
toString(chunk) ==
  IF chunk = <<>>
  THEN <<>>
  ELSE IF Len(chunk) >= 2 /\ chunk[1] = "C3" /\ chunk[2] = "A9"
  THEN <<"U+00E9">> \o toString(SubSeq(chunk, 3, Len(chunk)))
  ELSE IF chunk[1] \in {"C3", "A9"}
  THEN <<Replacement>> \o toString(Tail(chunk))
  ELSE <<Ascii(chunk[1])>> \o toString(Tail(chunk))

RECURSIVE split(_, _)
\* "s.split(sep)" for a separator of one character: the pieces between
\* the separators, one more than there are separators.
split(s, sep) ==
  IF \A i \in 1..Len(s) : s[i] # sep
  THEN <<s>>
  ELSE LET i == CHOOSE j \in 1..Len(s) :
                  s[j] = sep /\ \A h \in 1..(j - 1) : s[h] # sep
       IN <<SubSeq(s, 1, i - 1)>> \o split(SubSeq(s, i + 1, Len(s)), sep)

\* The white space String.prototype.trim strips.
WhiteSpace == {" ", "\n"}

\* "line.trim()".
trim(line) ==
  IF \A i \in 1..Len(line) : line[i] \in WhiteSpace
  THEN <<>>
  ELSE LET a == CHOOSE i \in 1..Len(line) :
                  /\ line[i] \notin WhiteSpace
                  /\ \A h \in 1..(i - 1) : line[h] \in WhiteSpace
           b == CHOOSE i \in 1..Len(line) :
                  /\ line[i] \notin WhiteSpace
                  /\ \A h \in (i + 1)..Len(line) : line[h] \in WhiteSpace
       IN SubSeq(line, a, b)

\* The JSON texts over Chars: a number of digits, or a string between two
\* double quotes with none inside.
IsNumber(text) == text # <<>> /\ \A i \in 1..Len(text) : text[i] = "1"

IsString(text) ==
  /\ Len(text) >= 2
  /\ text[1] = "\""
  /\ text[Len(text)] = "\""
  /\ \A i \in 2..(Len(text) - 1) : text[i] # "\""

\* An event of the transport's emitter.
Emission(type, value) == [type |-> type, value |-> value]

\* "JSON.parse(trimmed)" inside the try: the value as a 'message' event,
\* or, when it throws, the 'error' event of the catch with the line.
ParseLine(trimmed) ==
  IF IsNumber(trimmed)
  THEN Emission("message", [number |-> Len(trimmed)])
  ELSE IF IsString(trimmed)
  THEN Emission("message", [string |-> SubSeq(trimmed, 2, Len(trimmed) - 1)])
  ELSE Emission("error", trimmed)

RECURSIVE EmitLines(_)
\* The for loop of handleData: blank lines are skipped.
EmitLines(lines) ==
  IF lines = <<>>
  THEN <<>>
  ELSE (IF trim(Head(lines)) = <<>> THEN <<>>
        ELSE <<ParseLine(trim(Head(lines)))>>) \o EmitLines(Tail(lines))

\* All but the last element: the array after "lines.pop()".
Front(seq) == SubSeq(seq, 1, Len(seq) - 1)

\* handleData(data): the buffer and the events it leaves.
handleData(buf, data) ==
  LET lines == split(buf \o data, "\n")
  IN [buffer |-> lines[Len(lines)], emitted |-> EmitLines(Front(lines))]

\* The child writes one more character to its stdout.
ChildWrites(ch) ==
  /\ process # 0
  /\ hasHandle(children[process])
  /\ Len(written) < MaxStream
  /\ written' = Append(written, ch)
  /\ stdout' = stdout \o Utf8(ch)
  /\ UNCHANGED <<protoVars, mgrVars, cliVars, rtrVars, process, isConnected,
                 children, tcalls, buffer, emissions>>

\* A 'data' event of stdout with the first n bytes waiting in the pipe:
\* "this.handleData(chunk.toString('utf-8'))".
OnData(n) ==
  /\ process # 0
  /\ n \in 1..Len(stdout)
  /\ LET r == handleData(buffer, toString(SubSeq(stdout, 1, n)))
     IN /\ buffer' = r.buffer
        /\ emissions' = emissions \o r.emitted
  /\ stdout' = SubSeq(stdout, n + 1, Len(stdout))
  /\ UNCHANGED <<protoVars, mgrVars, cliVars, rtrVars, process, isConnected,
                 children, tcalls, written>>

InitFraming == InitEngine

\* One transport with one child, its stdout read in chunks of any size.
NextFraming ==
  \/ process = 0 /\ StartTransport
  \/ \E c \in 1..Len(children) : OnSpawn(c)
  \/ \E ch \in Chars : ChildWrites(ch)
  \/ \E n \in 1..(2 * MaxStream) : OnData(n)

SpecFraming == InitFraming /\ [][NextFraming]_vars

\* ---- Properties of the framing

\* The bytes handed over so far.
Delivered ==
  SubSeq(Encode(written), 1, Len(Encode(written)) - Len(stdout))

RECURSIVE DecodeLines(_)
DecodeLines(lines) ==
  IF lines = <<>> THEN <<>>
  ELSE <<toString(Head(lines))>> \o DecodeLines(Tail(lines))

\* The complete lines handed over so far, each decoded as a whole.
CompleteLines == DecodeLines(Front(split(Delivered, "0A")))

RECURSIVE Types(_)
Types(es) ==
  IF es = <<>> THEN <<>> ELSE <<Head(es).type>> \o Types(Tail(es))

RECURSIVE Observed(_)
\* The events as far as the framing fixes them: the 'message' events with
\* their values, the 'error' events without their text.
Observed(es) ==
  IF es = <<>>
  THEN <<>>
  ELSE <<IF Head(es).type = "error" THEN Emission("error", <<>>)
         ELSE Head(es)>> \o Observed(Tail(es))

\* C31: however the stream is cut into chunks, the events emitted so far
\* are those of the complete lines handed over so far, in their order: for
\* each line that is not blank, a 'message' event with its value if it
\* parses as JSON and an 'error' event, and nothing else, if it does not.
C31_Framing == Observed(emissions) = Observed(EmitLines(CompleteLines))

\* C31, the part that holds: one event per complete line that is not
\* blank, in order, 'message' if the line parses and 'error' if not.
C31_EventPerLine == Types(emissions) = Types(EmitLines(CompleteLines))

\* C31 for a stream of one-byte characters.
C31_AsciiFraming ==
  (\A i \in 1..Len(written) : written[i] # "U+00E9") => C31_Framing

\* C31: handleData leaves the connection flag alone, so the transport stays
\* connected after a line that fails to parse.
C31_StaysConnected ==
  [][emissions' # emissions => isConnected' = isConnected]_vars

\* A chunk has ended inside a character, and the line was delivered as a
\* message with two replacement characters in place of it.
C31_TornCharacter ==
  \E i \in 1..Len(emissions) :
    /\ emissions[i].type = "message"
    /\ emissions[i].value = [string |-> <<Replacement, Replacement>>]

====
